---- MODULE Spec2Model ----
(***************************************************************************)
(* A model of the Lox bytecode interpreter of crafting-interpreters-rust:  *)
(* the string interning table (lox_string_table.rs), the scanner           *)
(* (scanner.rs), the single-pass compiler (compiler.rs) and the virtual    *)
(* machine (vm.rs).                                                        *)
(***************************************************************************)
EXTENDS Integers, Sequences, FiniteSets, Bags, TLC

(***************************************************************************)
(* Bounds of the model.                                                    *)
(***************************************************************************)
\* handles (LoxString values) a client of the table holds at once
MaxHandles == 3
\* heap slots for Box<InternalStringEntry>; there is one more for Box<str>
MaxEntries == 2
\* how far below zero a wrapped refcount is followed
MaxWrap == 1
\* characters in a source given to the scanner alone
MaxSourceLen == 3
\* sources given to one VM, one interpret call after the other
MaxSources == 2
\* interpret calls of a session on one VM
MaxCalls == 3
\* bytes of a chunk that run is given without compile
MaxCode == 3
\* characters of a source that compile is given whatever it holds
MaxCompiledLen == 2

VARIABLES
    table,      \* LoxStringTable.table: entry address -> InternalStringEntry
    handles,    \* the LoxString values alive outside the table, as a bag
    panicked,   \* a panic!/assert!/expect failed (or the process crashed)
    allocated,  \* history: the contents allocated and not removed since
    last,       \* history: the operation that led to this state
    scanner,    \* a Scanner: source, start, current, line
    token,      \* the Token the last scan_token call returned
    input,      \* the sources still to be handed to VM::interpret
    pc,         \* where interpret is: "idle", "compile", "run" or "aborted"
    parser,     \* the Parser of the compile call under way, or of the last one
    vm,         \* the VM: chunk, ip, stack, globals
    output,     \* what the VM has written to stdout and stderr
    returned,   \* what the last interpret call returned
    build_checks \* the build: whether integer overflow panics or wraps

tableVars == <<table, handles, allocated, last>>
scannerVars == <<scanner, token>>
interpreterVars == <<input, pc, parser, vm, output, returned, build_checks>>
vars == <<table, handles, panicked, allocated, last, scanner, token,
          input, pc, parser, vm, output, returned, build_checks>>

\* what the string table's operations leave alone
notTableVars == <<scannerVars, interpreterVars>>

\* what the scanner's operations leave alone
notScannerVars == <<tableVars, interpreterVars>>

\* what interpret leaves alone: it works on table and panicked as well
notInterpreterVars == <<handles, allocated, last, scannerVars>>

\* the value of a variable that a specification does not use
Unused == "unused"

\* no VM is constructed
NoInterpreter ==
    /\ input = << >>
    /\ pc = Unused
    /\ parser = Unused
    /\ vm = Unused
    /\ output = << >>
    /\ returned = Unused
    /\ build_checks = Unused

(***************************************************************************)
(* lox_string_table.rs                                                     *)
(***************************************************************************)
\* the string contents handed to the table
Strs == {<<"a">>, <<"b">>, <<"a", "a">>}

\* ptr::null()
Null == 0

\* std::u8::MAX
U8Max == 255

\* Box<str> addresses owned by the table's entries
UsedData(t) == {t[a].data_ptr : a \in DOMAIN t}

\* the allocator is first-fit: a new box gets the lowest free address, so a
\* freed address is the next one handed out
FirstFit(used) == CHOOSE x \in 1..(Cardinality(used) + 1) : x \notin used /\ \A y \in 1..(x - 1) : y \in used

\* the address of the next Box<InternalStringEntry>
FreeEntry(t) == FirstFit(DOMAIN t)

\* the address of the next Box<str>
FreeData(t) == FirstFit(UsedData(t))

\* a lookup that finds nothing
ContainsNever(t, s) == FALSE

\* HashSet::contains(&str): entries hash and compare by their data only
Contains(t, s) == \E a \in DOMAIN t : t[a].data = s

\* HashSet::get(&str): the address of the boxed entry whose data is s
Get(t, s) == CHOOSE a \in DOMAIN t : t[a].data = s

\* what a read through a *const str yields: the data of the live Box<str> it
\* points at or, for a pointer into freed memory, any bytes of that length
\* (undefined behaviour)
ReadStr(t, p) ==
    IF \E a \in DOMAIN t : t[a].data_ptr = p[1] /\ Len(t[a].data) = p[2]
    THEN {t[a].data : a \in {x \in DOMAIN t : t[x].data_ptr = p[1]}}
    ELSE {s \in Strs : Len(s) = p[2]}

\* LoxString::as_str
as_str(t, h) == ReadStr(t, h.string)

\* the entry a new InternalStringEntry starts as: refcount 0
NewEntry(s, d) == [refcount |-> 0, data |-> s, data_ptr |-> d]

\* an insert that replaces the Box<str> of an entry already present
InsertOrReplace(t, s, d) ==
    IF ~Contains(t, s)
    THEN (FreeEntry(t) :> NewEntry(s, d)) @@ t
    ELSE [t EXCEPT ![Get(t, s)].data_ptr = d]

\* the `if !self.table.contains(..) { self.table.insert(..) }` of both
\* allocation functions: the new Box<InternalStringEntry> holds the Box<str> at d
InsertIfAbsent(t, s, d) ==
    IF ~Contains(t, s)
    THEN (FreeEntry(t) :> NewEntry(s, d)) @@ t
    ELSE t

\* an allocation that forgets the refcount
InternNoIncrement(t, s) ==
    LET a == Get(t, s)
    IN  [table |-> t,
         string |-> [string |-> <<t[a].data_ptr, Len(s)>>, entry |-> a]]

\* the tail both allocation functions share: get the entry, increment its
\* refcount, build the LoxString from the entry's addresses
Intern(t, s) ==
    LET a == Get(t, s)
        t2 == [t EXCEPT ![a].refcount = @ + 1]
    IN  [table |-> t2,
         string |-> [string |-> <<t2[a].data_ptr, Len(s)>>, entry |-> a]]

\* LoxStringTable::allocate_string_from_str: string.into() is a new Box<str>
allocate_string_from_str(t, s) ==
    Intern(InsertIfAbsent(t, s, FreeData(t)), s)

\* LoxStringTable::allocate_string_from_box: the caller's Box<str> lives at d
\* and is kept only when the content is new
allocate_string_from_box(t, s, d) == Intern(InsertIfAbsent(t, s, d), s)

\* the heap of the model has room for the entry an allocation of s may need
HeapRoom(t, s) == Contains(t, s) \/ Cardinality(DOMAIN t) < MaxEntries

\* the client has room for one more LoxString
Room == BagCardinality(handles) < MaxHandles

One(h) == SetToBag({h})

AllocateStringFromStr ==
    /\ ~panicked
    /\ Room
    /\ \E s \in Strs :
         /\ HeapRoom(table, s)
         /\ LET r == allocate_string_from_str(table, s)
            IN  /\ table' = r.table
                /\ handles' = handles (+) One(r.string)
         /\ allocated' = allocated \cup {s}
    /\ last' = "allocate_string_from_str"
    /\ UNCHANGED <<panicked, notTableVars>>

\* as tests::box_allocate calls it: the caller makes the Box<str> first
AllocateStringFromBox ==
    /\ ~panicked
    /\ Room
    /\ \E s \in Strs :
         /\ HeapRoom(table, s)
         /\ LET raw_ptr == FreeData(table)
                r == allocate_string_from_box(table, s, raw_ptr)
            IN  /\ table' = r.table
                /\ handles' = handles (+) One(r.string)
         /\ allocated' = allocated \cup {s}
    /\ last' = "allocate_string_from_box"
    /\ UNCHANGED <<panicked, notTableVars>>

\* LoxStringTable::concatenate of the contents ls and rs that as_str reads
\* through the two handles: format!() builds the new Box<str>
concatenate(t, ls, rs) == allocate_string_from_box(t, ls \o rs, FreeData(t))

Concatenate ==
    /\ ~panicked
    /\ Room
    /\ \E l \in BagToSet(handles), r \in BagToSet(handles) :
         \E ls \in as_str(table, l), rs \in as_str(table, r) :
            /\ ls \o rs \in Strs
            /\ HeapRoom(table, ls \o rs)
            /\ LET res == concatenate(table, ls, rs)
               IN  /\ table' = res.table
                   /\ handles' = handles (+) One(res.string)
            /\ allocated' = allocated \cup {ls \o rs}
    /\ last' = "concatenate"
    /\ UNCHANGED <<panicked, notTableVars>>

\* #[derive(Clone)] on LoxString: both pointers are copied, nothing else happens
CloneString ==
    /\ ~panicked
    /\ Room
    /\ \E h \in BagToSet(handles) : handles' = handles (+) One(h)
    /\ last' = "clone"
    /\ UNCHANGED <<table, panicked, allocated, notTableVars>>

Without(f, x) == [y \in DOMAIN f \ {x} |-> f[y]]

\* a panic ends the client: the unwinding drops its locals and the table
Panic(op) ==
    /\ panicked' = TRUE
    /\ table' = << >>
    /\ handles' = EmptyBag
    /\ allocated' = {}
    /\ last' = op
    /\ UNCHANGED notTableVars

\* impl Drop for LoxString.  The decrement is a u64 `-= 1`: at 0 it panics in
\* a build with overflow checks and wraps to u64::MAX in one without; the
\* refcount is kept as its residue modulo 2^64, so -1 stands for u64::MAX.
\* A decrement through a pointer to a removed entry writes freed memory.
DropString ==
    /\ ~panicked
    /\ \E h \in BagToSet(handles) :
         LET a == h.entry
             dropped == /\ handles' = handles (-) One(h)
                        /\ last' = "drop"
                        /\ UNCHANGED <<panicked, allocated, notTableVars>>
         IN
         \/ /\ a = Null
            /\ dropped
            /\ UNCHANGED table
         \/ /\ a \in DOMAIN table
            /\ table[a].refcount # 0
            /\ table[a].refcount > -MaxWrap
            /\ dropped
            /\ table' = [table EXCEPT ![a].refcount = @ - 1]
         \/ /\ a \in DOMAIN table
            /\ table[a].refcount = 0
            /\ \/ dropped /\ table' = [table EXCEPT ![a].refcount = -1]
               \/ Panic("drop")
         \/ /\ a # Null
            /\ a \notin DOMAIN table
            /\ \/ dropped /\ UNCHANGED table
               \/ Panic("drop")

\* a removal that does not look at the refcount
RemoveChecksNoCount(t, h, s) ==
    /\ Contains(t, s)
    /\ h.entry = Get(t, s)

\* the three checks of LoxStringTable::remove_string, on the content s it
\* reads through the handle: expect("Asked to remove a string not present"),
\* assert_eq!(entry.refcount.replace(0), 1) and
\* assert_eq!(entry.as_ref() as *const InternalStringEntry, entry_ptr)
RemoveChecks(t, h, s) ==
    /\ Contains(t, s)
    /\ t[Get(t, s)].refcount = 1
    /\ h.entry = Get(t, s)

\* LoxStringTable::remove_string
RemoveString ==
    /\ ~panicked
    /\ \E h \in BagToSet(handles) :
         \E s \in as_str(table, h) :
            IF RemoveChecks(table, h, s)
            THEN /\ table' = Without(table, Get(table, s))
                 /\ handles' = (handles (-) One(h)) (+) One([h EXCEPT !.entry = Null])
                 /\ allocated' = allocated \ {s}
                 /\ last' = "remove_string"
                 /\ UNCHANGED <<panicked, notTableVars>>
            ELSE Panic("remove_string")

\* LoxStringTable::new, and no LoxString yet
InitTable ==
    /\ table = << >>
    /\ handles = EmptyBag
    /\ panicked = FALSE
    /\ allocated = {}
    /\ last = "new"
    /\ scanner = Unused
    /\ token = Unused
    /\ NoInterpreter

NextTable ==
    \/ AllocateStringFromStr
    \/ AllocateStringFromBox
    \/ Concatenate
    \/ CloneString
    \/ DropString
    \/ RemoveString

\* the table under every operation a LoxString offers
SpecTable == InitTable /\ [][NextTable]_vars

NextTableApi ==
    \/ AllocateStringFromStr
    \/ AllocateStringFromBox
    \/ Concatenate
    \/ DropString
    \/ RemoveString

\* the table as its own tests drive it: handles are allocated, dropped and
\* removed, never cloned
SpecTableApi == InitTable /\ [][NextTableApi]_vars

(***************************************************************************)
(* scanner.rs                                                              *)
(*                                                                         *)
(* A source is a sequence of characters.  The two Peekable<CharIndices> of *)
(* the Scanner are positions in it: position Len(source) + 1 is the        *)
(* exhausted iterator.  A token's string is the slice of the source it     *)
(* covers, as a sequence of characters; an error token's string is its     *)
(* message, kept as a sequence of one element.                             *)
(***************************************************************************)
\* Option::None of an Option<char>
None == ""

Digits == {"0", "1", "2", "3", "4", "5", "6", "7", "8", "9"}

Alphas ==
    {"a", "b", "c", "d", "e", "f", "g", "h", "i", "j", "k", "l", "m", "n", "o", "p", "q", "r", "s", "t", "u", "v", "w", "x", "y", "z",
     "A", "B", "C", "D", "E", "F", "G", "H", "I", "J", "K", "L", "M", "N", "O", "P", "Q", "R", "S", "T", "U", "V", "W", "X", "Y", "Z",
     "_"}

\* IsLoxDigit for char and Option<char>
is_lox_digit(c) == c \in Digits

\* IsLoxAlpha for char and Option<char>
is_lox_alpha(c) == c \in Alphas

\* char::is_whitespace, on the characters of the model
is_whitespace(c) == c \in {" ", "\t", "\r", "\n"}

\* Scanner::new
Scanner_new(source) == [source |-> source, start |-> 1, current |-> 1, line |-> 1]

\* the token a panic!() leaves the caller with
PanicToken == [string |-> << >>, line |-> 0, token_type |-> "Panic"]

\* Scanner::make_token
make_token(sc, token_type) ==
    IF sc.start <= Len(sc.source)
    THEN [string |-> SubSeq(sc.source, sc.start, sc.current - 1),
          line |-> sc.line,
          token_type |-> token_type]
    ELSE PanicToken

\* Scanner::make_error_token
make_error_token(sc, message) ==
    [string |-> <<message>>, line |-> sc.line, token_type |-> "TokenError"]

\* Scanner::peek
Scanner_peek(sc) ==
    IF sc.current <= Len(sc.source) THEN sc.source[sc.current] ELSE None

\* Scanner::peek_next
peek_next(sc) ==
    IF sc.current + 1 <= Len(sc.source) THEN sc.source[sc.current + 1] ELSE None

\* Scanner::advance: the scanner after self.current.next(); the character
\* returned is Scanner_peek of the scanner before
Scanner_advance(sc) ==
    IF sc.current <= Len(sc.source) THEN [sc EXCEPT !.current = @ + 1] ELSE sc

\* Scanner::match_character: whether it matches, and the scanner after
match_character(sc, c) ==
    IF Scanner_peek(sc) = c
    THEN [matched |-> TRUE, scanner |-> Scanner_advance(sc)]
    ELSE [matched |-> FALSE, scanner |-> sc]

RECURSIVE skip_comment(_)
\* the inner loop of skip_whitespace: up to the next newline or the end.  The
\* loop breaks at a newline and returns at the end of the source; the outer
\* loop returns at the end of the source too
skip_comment(sc) ==
    IF Scanner_peek(sc) \in {"\n", None}
    THEN sc
    ELSE skip_comment(Scanner_advance(sc))

RECURSIVE skip_whitespace(_)
\* Scanner::skip_whitespace
skip_whitespace(sc) ==
    IF Scanner_peek(sc) = "\n"
    THEN skip_whitespace(Scanner_advance([sc EXCEPT !.line = @ + 1]))
    ELSE IF Scanner_peek(sc) # None /\ is_whitespace(Scanner_peek(sc))
    THEN skip_whitespace(Scanner_advance(sc))
    ELSE IF Scanner_peek(sc) = "/" /\ peek_next(sc) = "/"
    THEN skip_whitespace(skip_comment(sc))
    ELSE sc

RECURSIVE make_string_token_uncounted(_)
\* a make_string_token that does not count the newlines of the literal
make_string_token_uncounted(sc) ==
    IF Scanner_peek(sc) = None
    THEN [scanner |-> sc, token |-> make_error_token(sc, "Unterminated string.")]
    ELSE IF Scanner_peek(sc) = "\""
    THEN [scanner |-> Scanner_advance(sc),
          token |-> make_token(Scanner_advance(sc), "TokenString")]
    ELSE make_string_token_uncounted(Scanner_advance(sc))

RECURSIVE make_string_token(_)
\* Scanner::make_string_token
make_string_token(sc) ==
    IF Scanner_peek(sc) = None
    THEN [scanner |-> sc, token |-> make_error_token(sc, "Unterminated string.")]
    ELSE IF Scanner_peek(sc) = "\""
    THEN [scanner |-> Scanner_advance(sc),
          token |-> make_token(Scanner_advance(sc), "TokenString")]
    ELSE IF Scanner_peek(sc) = "\n"
    THEN make_string_token(Scanner_advance([sc EXCEPT !.line = @ + 1]))
    ELSE make_string_token(Scanner_advance(sc))

RECURSIVE skip_digits(_)
\* while self.peek().is_lox_digit() { self.advance(); }
skip_digits(sc) ==
    IF is_lox_digit(Scanner_peek(sc)) THEN skip_digits(Scanner_advance(sc)) ELSE sc

\* a make_number_token that takes a '.' into the number whatever follows it
make_number_token_greedy(sc) ==
    LET whole == skip_digits(sc)
        end == IF Scanner_peek(whole) = "."
               THEN skip_digits(Scanner_advance(whole))
               ELSE whole
    IN  [scanner |-> end, token |-> make_token(end, "TokenNumber")]

\* Scanner::make_number_token
make_number_token(sc) ==
    LET whole == skip_digits(sc)
        end == IF Scanner_peek(whole) = "." /\ is_lox_digit(peek_next(whole))
               THEN skip_digits(Scanner_advance(whole))
               ELSE whole
    IN  [scanner |-> end, token |-> make_token(end, "TokenNumber")]

\* Scanner::check_keyword, iter being at position i: rest follows from i on
\* and the iterator is then where self.current is
check_keyword(sc, i, rest) ==
    /\ \A k \in 1..Len(rest) :
          /\ i + k - 1 <= Len(sc.source)
          /\ sc.source[i + k - 1] = rest[k]
    /\ \/ i + Len(rest) = sc.current
       \/ i + Len(rest) > Len(sc.source) /\ sc.current > Len(sc.source)

RECURSIVE skip_identifier(_)
\* while self.peek().is_lox_digit() || self.peek().is_lox_alpha() { self.advance(); }
skip_identifier(sc) ==
    IF is_lox_digit(Scanner_peek(sc)) \/ is_lox_alpha(Scanner_peek(sc))
    THEN skip_identifier(Scanner_advance(sc))
    ELSE sc

\* the match of make_identifier_token: the rest of the one keyword that can
\* start as the identifier does, where that rest starts, and its token type
keyword_candidate(sc) ==
    LET c1 == sc.source[sc.start]
        c2 == IF sc.start + 1 <= Len(sc.source) THEN sc.source[sc.start + 1] ELSE None
        one(rest, token_type) == [at |-> sc.start + 1, rest |-> rest, token_type |-> token_type]
        two(rest, token_type) == [at |-> sc.start + 2, rest |-> rest, token_type |-> token_type]
        none == [at |-> 0, rest |-> << >>, token_type |-> "TokenIdentifier"]
    IN  CASE c1 = "a" -> one(<<"n", "d">>, "TokenAnd")
          [] c1 = "c" -> one(<<"l", "a", "s", "s">>, "TokenClass")
          [] c1 = "e" -> one(<<"l", "s", "e">>, "TokenElse")
          [] c1 = "f" /\ c2 = "a" -> two(<<"l", "s", "e">>, "TokenFalse")
          [] c1 = "f" /\ c2 = "o" -> two(<<"r">>, "TokenFor")
          [] c1 = "f" /\ c2 = "u" -> two(<<"n">>, "TokenFun")
          [] c1 = "i" -> one(<<"f">>, "TokenIf")
          [] c1 = "n" -> one(<<"i", "l">>, "TokenNil")
          [] c1 = "o" -> one(<<"r">>, "TokenOr")
          [] c1 = "p" -> one(<<"r", "i", "n", "t">>, "TokenPrint")
          [] c1 = "r" -> one(<<"e", "t", "u", "r", "n">>, "TokenReturn")
          [] c1 = "s" -> one(<<"u", "p", "e", "r">>, "TokenSuper")
          [] c1 = "t" /\ c2 = "h" -> two(<<"i", "s">>, "TokenThis")
          [] c1 = "t" /\ c2 = "r" -> two(<<"u", "e">>, "TokenTrue")
          [] c1 = "v" -> one(<<"a", "r">>, "TokenVar")
          [] c1 = "w" -> one(<<"h", "i", "l", "e">>, "TokenWhile")
          [] OTHER -> none

\* Scanner::make_identifier_token
make_identifier_token(sc) ==
    LET end == skip_identifier(sc)
        k == keyword_candidate(end)
    IN  [scanner |-> end,
         token |-> IF k.at # 0 /\ check_keyword(end, k.at, k.rest)
                   THEN make_token(end, k.token_type)
                   ELSE make_token(end, "TokenIdentifier")]

\* the tokens of one character, and those that may be followed by '='
SingleCharTokens ==
    [c \in {"(", ")", "{", "}", ";", ",", ".", "-", "+", "/", "*"} |->
        CASE c = "(" -> "TokenLeftParen"
          [] c = ")" -> "TokenRightParen"
          [] c = "{" -> "TokenLeftBrace"
          [] c = "}" -> "TokenRightBrace"
          [] c = ";" -> "TokenSemicolon"
          [] c = "," -> "TokenComma"
          [] c = "." -> "TokenDot"
          [] c = "-" -> "TokenMinus"
          [] c = "+" -> "TokenPlus"
          [] c = "/" -> "TokenSlash"
          [] c = "*" -> "TokenStar"]

DoubleCharTokens ==
    [c \in {"!", "=", "<", ">"} |->
        CASE c = "!" -> <<"TokenBangEqual", "TokenBang">>
          [] c = "=" -> <<"TokenEqualEqual", "TokenEqual">>
          [] c = "<" -> <<"TokenLessEqual", "TokenLess">>
          [] c = ">" -> <<"TokenGreaterEqual", "TokenGreater">>]

\* an end-of-file token made the way every other token is
make_eof_token_from_slice(sc) == make_token(sc, "TokenEof")

\* the None arm of scan_token
make_eof_token(sc) == [string |-> << >>, line |-> sc.line, token_type |-> "TokenEof"]

\* Scanner::scan_token: the scanner after the call and the token returned
scan_token(scanner0) ==
    LET skipped == skip_whitespace(scanner0)
        sc0 == [skipped EXCEPT !.start = skipped.current]
        c == Scanner_peek(sc0)
        sc == Scanner_advance(sc0)
    IN  CASE c \in DOMAIN SingleCharTokens ->
                [scanner |-> sc, token |-> make_token(sc, SingleCharTokens[c])]
          [] c \in DOMAIN DoubleCharTokens ->
                LET m == match_character(sc, "=")
                IN  [scanner |-> m.scanner,
                     token |-> make_token(m.scanner,
                                          IF m.matched THEN DoubleCharTokens[c][1]
                                                       ELSE DoubleCharTokens[c][2])]
          [] c = "\"" -> make_string_token(sc)
          [] is_lox_digit(c) -> make_number_token(sc)
          [] is_lox_alpha(c) -> make_identifier_token(sc)
          [] c = None -> [scanner |-> sc, token |-> make_eof_token(sc)]
          [] OTHER -> [scanner |-> sc, token |-> make_error_token(sc, "Unexpected character.")]

\* the Token a Parser starts with, before any scan_token call
PlaceholderToken ==
    [string |-> <<"Parser placeholder.">>, line |-> -1, token_type |-> "TokenError"]

(***************************************************************************)
(* value.rs and chunk.rs                                                   *)
(*                                                                         *)
(* A number is kept exactly, as a fraction <<n, d>> in lowest terms with   *)
(* d >= 0: <<1, 0>> and <<-1, 0>> are the infinities and <<0, 0>> is NaN.  *)
(* The two zeros of an f64 are one value and no result is rounded.         *)
(***************************************************************************)
Abs(x) == IF x < 0 THEN -x ELSE x

Sign(x) == IF x < 0 THEN -1 ELSE IF x = 0 THEN 0 ELSE 1

RECURSIVE GCD(_, _)
GCD(x, y) == IF y = 0 THEN x ELSE GCD(y, x % y)

\* the f64 that n / d is
Fraction(n, d) ==
    IF d = 0
    THEN <<Sign(n), 0>>
    ELSE LET g == GCD(Abs(n), Abs(d))
         IN  <<(Sign(d) * n) \div g, Abs(d) \div g>>

\* Value::ValNil, ValBool, ValNumber, ValObjString
ValNil == [tag |-> "ValNil", value |-> "nil"]
ValBool(b) == [tag |-> "ValBool", value |-> b]
ValNumber(x) == [tag |-> "ValNumber", value |-> x]
ValObjString(h) == [tag |-> "ValObjString", value |-> h]

\* Chunk::new
Chunk_new == [code |-> << >>, lines |-> << >>, constants |-> << >>]

\* Chunk::write_chunk.  A byte of code is the name of its opcode or, for an
\* operand, the index it holds
write_chunk(chunk, byte, line) ==
    [chunk EXCEPT !.code = Append(@, byte), !.lines = Append(@, line)]

\* Chunk::add_constant: the index returned is Len(constants) - 1 afterwards
add_constant(chunk, value) == [chunk EXCEPT !.constants = Append(@, value)]

\* the opcodes that chunk.rs disassembles as a constant_instruction: one
\* operand byte follows them
ConstantInstructions == {"OpConstant", "OpGetGlobal", "OpDefineGlobal", "OpSetGlobal"}

RECURSIVE Instructions(_, _)
\* Chunk::dissasemble: the opcodes of the code from offset on, in order
Instructions(code, offset) ==
    IF offset > Len(code)
    THEN << >>
    ELSE <<code[offset]>> \o
         Instructions(code, offset + (IF code[offset] \in ConstantInstructions THEN 2 ELSE 1))

(***************************************************************************)
(* compiler.rs                                                             *)
(*                                                                         *)
(* A Parser is a record of its fields; string_table is the table it        *)
(* borrows from the VM and diagnostics is what it has written to stderr.   *)
(***************************************************************************)
\* enum Precedence
Precedence ==
    [PrecNone |-> 0, PrecAssignment |-> 1, PrecOr |-> 2, PrecAnd |-> 3,
     PrecEquality |-> 4, PrecComparison |-> 5, PrecTerm |-> 6, PrecFactor |-> 7,
     PrecUnary |-> 8, PrecCall |-> 9, PrecPrimary |-> 10]

\* a right operand parsed at the level of the unary operators, whatever the
\* operator
get_unary_level(precedence) == Precedence.PrecUnary

\* a right operand parsed at the operator's own level
get_same_level(precedence) == precedence

\* Precedence::get_next_highest (it panics at PrecPrimary, which no rule has)
get_next_highest(precedence) == precedence + 1

\* Parser::get_rule
get_rule(token_type) ==
    LET rule(prefix, infix, precedence) ==
            [prefix |-> prefix, infix |-> infix, precedence |-> Precedence[precedence]]
    IN  CASE token_type = "TokenLeftParen" -> rule("grouping", "None", "PrecNone")
          [] token_type = "TokenMinus" -> rule("unary", "binary", "PrecTerm")
          [] token_type = "TokenPlus" -> rule("None", "binary", "PrecTerm")
          [] token_type \in {"TokenSlash", "TokenStar"} -> rule("None", "binary", "PrecFactor")
          [] token_type = "TokenBang" -> rule("unary", "None", "PrecNone")
          [] token_type \in {"TokenBangEqual", "TokenEqualEqual"} ->
                rule("None", "binary", "PrecEquality")
          [] token_type \in {"TokenGreater", "TokenGreaterEqual", "TokenLess", "TokenLessEqual"} ->
                rule("None", "binary", "PrecComparison")
          [] token_type = "TokenIdentifier" -> rule("variable", "None", "PrecNone")
          [] token_type = "TokenString" -> rule("string", "None", "PrecNone")
          [] token_type = "TokenNumber" -> rule("number", "None", "PrecNone")
          [] token_type \in {"TokenFalse", "TokenNil", "TokenTrue"} ->
                rule("literal", "None", "PrecNone")
          [] OTHER -> rule("None", "None", "PrecNone")

\* Parser::new
Parser_new(string_table, source) ==
    [scanner |-> Scanner_new(source),
     current |-> PlaceholderToken,
     previous |-> PlaceholderToken,
     had_error |-> FALSE,
     panic_mode |-> FALSE,
     compiling_chunk |-> Chunk_new,
     string_table |-> string_table,
     diagnostics |-> << >>]

\* an error_at that reports in panic mode too
error_at_always(p, tok, message) ==
    [p EXCEPT !.panic_mode = TRUE,
              !.had_error = TRUE,
              !.diagnostics =
                  Append(@, [line |-> tok.line,
                             at |-> CASE tok.token_type = "TokenEof" -> <<"end">>
                                      [] tok.token_type = "TokenError" -> << >>
                                      [] OTHER -> tok.string,
                             message |-> message])]

\* an error_at that does not set had_error
error_at_unrecorded(p, tok, message) ==
    IF p.panic_mode
    THEN p
    ELSE [p EXCEPT !.panic_mode = TRUE,
                   !.diagnostics =
                       Append(@, [line |-> tok.line,
                                  at |-> CASE tok.token_type = "TokenEof" -> <<"end">>
                                           [] tok.token_type = "TokenError" -> << >>
                                           [] OTHER -> tok.string,
                                  message |-> message])]

\* Parser::error_at
error_at(p, tok, message) ==
    IF p.panic_mode
    THEN p
    ELSE [p EXCEPT !.panic_mode = TRUE,
                   !.had_error = TRUE,
                   !.diagnostics =
                       Append(@, [line |-> tok.line,
                                  at |-> CASE tok.token_type = "TokenEof" -> <<"end">>
                                           [] tok.token_type = "TokenError" -> << >>
                                           [] OTHER -> tok.string,
                                  message |-> message])]

\* Parser::error_at_current
error_at_current(p, message) == error_at(p, p.current, message)

\* Parser::error
error(p, message) == error_at(p, p.previous, message)

RECURSIVE advance_loop_silent(_)
\* an advance that skips error tokens without reporting them
advance_loop_silent(p) ==
    LET scanned(r) ==
            IF r.token.token_type # "TokenError"
            THEN [p EXCEPT !.scanner = r.scanner, !.current = r.token]
            ELSE advance_loop_silent([p EXCEPT !.scanner = r.scanner, !.current = r.token])
    IN  scanned(scan_token(p.scanner))

RECURSIVE advance_loop(_)
\* the loop of Parser::advance: scan, and report and skip error tokens
advance_loop(p) ==
    LET scanned(r) ==
            IF r.token.token_type # "TokenError"
            THEN [p EXCEPT !.scanner = r.scanner, !.current = r.token]
            ELSE advance_loop(error_at_current(
                     [p EXCEPT !.scanner = r.scanner, !.current = r.token],
                     r.token.string[1]))
    IN  scanned(scan_token(p.scanner))

\* Parser::advance
Parser_advance(p) == advance_loop([p EXCEPT !.previous = p.current])

\* Parser::consume
consume(p, token_type, message) ==
    IF p.current.token_type = token_type
    THEN Parser_advance(p)
    ELSE error_at_current(p, message)

\* Parser::check
check(p, token_type) == p.current.token_type = token_type

\* Parser::match_token: the parser after the call (whether it matched is
\* check of the parser before)
match_token(p, token_type) == IF check(p, token_type) THEN Parser_advance(p) ELSE p

\* Parser::emit_byte
emit_byte(p, byte) ==
    [p EXCEPT !.compiling_chunk = write_chunk(@, byte, p.previous.line)]

\* Parser::emit_bytes
emit_bytes(p, byte1, byte2) == emit_byte(emit_byte(p, byte1), byte2)

\* Parser::emit_return
emit_return(p) == emit_byte(p, "OpReturn")

\* Parser::end_compiler
end_compiler(p) == emit_return(p)

\* a make_constant that casts the index to u8 without looking at it
make_constant_unchecked(p, value) ==
    [parser |-> [p EXCEPT !.compiling_chunk = add_constant(@, value)],
     constant |-> Len(p.compiling_chunk.constants) % (U8Max + 1)]

\* a make_constant that returns the length of the pool, not the index
make_constant_length(p, value) ==
    LET p1 == [p EXCEPT !.compiling_chunk = add_constant(@, value)]
        constant == Len(p1.compiling_chunk.constants)
    IN  IF constant > U8Max
        THEN [parser |-> error(p1, "Too many constants in one chunk."), constant |-> 0]
        ELSE [parser |-> p1, constant |-> constant]

\* Parser::make_constant: the parser after the call and the u8 returned
make_constant(p, value) ==
    LET p1 == [p EXCEPT !.compiling_chunk = add_constant(@, value)]
        constant == Len(p1.compiling_chunk.constants) - 1
    IN  IF constant > U8Max
        THEN [parser |-> error(p1, "Too many constants in one chunk."), constant |-> 0]
        ELSE [parser |-> p1, constant |-> constant]

\* Parser::emit_constant
emit_constant(p, value) ==
    LET c == make_constant(p, value)
    IN  emit_bytes(c.parser, "OpConstant", c.constant)

\* the value of a decimal digit
DigitValue(c) == CHOOSE v \in 0..9 : <<"0", "1", "2", "3", "4", "5", "6", "7", "8", "9">>[v + 1] = c

RECURSIVE DecimalValue(_)
\* the natural number a sequence of digits denotes
DecimalValue(digits) ==
    IF digits = << >>
    THEN 0
    ELSE 10 * DecimalValue(SubSeq(digits, 1, Len(digits) - 1)) + DigitValue(digits[Len(digits)])

RECURSIVE Pow10(_)
Pow10(k) == IF k = 0 THEN 1 ELSE 10 * Pow10(k - 1)

\* f64::from_str on the text of a number token: digits, or digits '.' digits
f64_from_str(text) ==
    LET dots == {i \in 1..Len(text) : text[i] = "."}
    IN  IF dots = {}
        THEN Fraction(DecimalValue(text), 1)
        ELSE LET dot == CHOOSE i \in dots : TRUE
                 fraction == SubSeq(text, dot + 1, Len(text))
             IN  Fraction(DecimalValue(SubSeq(text, 1, dot - 1)) * Pow10(Len(fraction))
                            + DecimalValue(fraction),
                          Pow10(Len(fraction)))

\* Parser::number
number(p, can_assign) == emit_constant(p, ValNumber(f64_from_str(p.previous.string)))

\* Parser::string
string(p, can_assign) ==
    LET str_slice == p.previous.string
        r == allocate_string_from_str(p.string_table, SubSeq(str_slice, 2, Len(str_slice) - 1))
    IN  emit_constant([p EXCEPT !.string_table = r.table], ValObjString(r.string))

\* Parser::identifier_constant: the parser after the call and the u8 returned
identifier_constant(p, name) ==
    LET r == allocate_string_from_str(p.string_table, name.string)
    IN  make_constant([p EXCEPT !.string_table = r.table], ValObjString(r.string))

\* Parser::literal
literal(p, can_assign) ==
    CASE p.previous.token_type = "TokenFalse" -> emit_byte(p, "OpFalse")
      [] p.previous.token_type = "TokenNil" -> emit_byte(p, "OpNil")
      [] p.previous.token_type = "TokenTrue" -> emit_byte(p, "OpTrue")

RECURSIVE parse_precedence(_, _), infix_loop(_, _, _), prefix_rule(_, _, _)
RECURSIVE grouping(_, _), unary(_, _), binary(_, _), named_variable(_, _, _)

\* Parser::expression
expression(p) == parse_precedence(p, Precedence.PrecAssignment)

\* Parser::grouping
grouping(p, can_assign) ==
    consume(expression(p), "TokenRightParen", "Expect ')' after expression.")

\* Parser::unary
unary(p, can_assign) ==
    LET operator_type == p.previous.token_type
        p1 == parse_precedence(p, Precedence.PrecUnary)
    IN  CASE operator_type = "TokenBang" -> emit_byte(p1, "OpNot")
          [] operator_type = "TokenMinus" -> emit_byte(p1, "OpNegate")

\* Parser::binary
binary(p, can_assign) ==
    LET operator_type == p.previous.token_type
        rule == get_rule(operator_type)
        p1 == parse_precedence(p, get_next_highest(rule.precedence))
    IN  CASE operator_type = "TokenBangEqual" -> emit_bytes(p1, "OpEqual", "OpNot")
          [] operator_type = "TokenEqualEqual" -> emit_byte(p1, "OpEqual")
          [] operator_type = "TokenGreater" -> emit_byte(p1, "OpGreater")
          [] operator_type = "TokenGreaterEqual" -> emit_bytes(p1, "OpLess", "OpNot")
          [] operator_type = "TokenLess" -> emit_byte(p1, "OpLess")
          [] operator_type = "TokenLessEqual" -> emit_bytes(p1, "OpGreater", "OpNot")
          [] operator_type = "TokenPlus" -> emit_byte(p1, "OpAdd")
          [] operator_type = "TokenMinus" -> emit_byte(p1, "OpSubtract")
          [] operator_type = "TokenStar" -> emit_byte(p1, "OpMultiply")
          [] operator_type = "TokenSlash" -> emit_byte(p1, "OpDivide")

\* Parser::named_variable
named_variable(p, tok, can_assign) ==
    LET named(c) ==
            IF can_assign /\ check(c.parser, "TokenEqual")
            THEN emit_bytes(expression(match_token(c.parser, "TokenEqual")),
                            "OpSetGlobal", c.constant)
            ELSE emit_bytes(c.parser, "OpGetGlobal", c.constant)
    IN  named(identifier_constant(p, tok))

\* Parser::variable
variable(p, can_assign) == named_variable(p, p.previous, can_assign)

\* the call of a rule's prefix function
prefix_rule(name, p, can_assign) ==
    CASE name = "grouping" -> grouping(p, can_assign)
      [] name = "unary" -> unary(p, can_assign)
      [] name = "variable" -> variable(p, can_assign)
      [] name = "string" -> string(p, can_assign)
      [] name = "number" -> number(p, can_assign)
      [] name = "literal" -> literal(p, can_assign)

\* the while loop of parse_precedence; the only infix function is binary
infix_loop(p, precedence, can_assign) ==
    IF precedence <= get_rule(p.current.token_type).precedence
    THEN infix_loop(binary(Parser_advance(p), can_assign), precedence, can_assign)
    ELSE p

\* parse_precedence without its last statement, the check for a '=' left over
parse_precedence_any_target(p, precedence) ==
    LET can_assign == precedence <= Precedence.PrecAssignment
        advanced(p1) ==
            LET prefix_rule_option == get_rule(p1.previous.token_type).prefix
            IN  IF prefix_rule_option = "None"
                THEN error(p1, "Expect expression.")
                ELSE infix_loop(prefix_rule(prefix_rule_option, p1, can_assign),
                                precedence, can_assign)
    IN  advanced(Parser_advance(p))

\* Parser::parse_precedence
parse_precedence(p, precedence) ==
    LET can_assign == precedence <= Precedence.PrecAssignment
        parsed(p2) ==
            IF can_assign /\ check(p2, "TokenEqual")
            THEN error(match_token(p2, "TokenEqual"), "Invalid assignment target.")
            ELSE p2
        advanced(p1) ==
            LET prefix_rule_option == get_rule(p1.previous.token_type).prefix
            IN  IF prefix_rule_option = "None"
                THEN error(p1, "Expect expression.")
                ELSE parsed(infix_loop(prefix_rule(prefix_rule_option, p1, can_assign),
                                       precedence, can_assign))
    IN  advanced(Parser_advance(p))

\* Parser::parse_variable: the parser after the call and the u8 returned
parse_variable(p, error_message) ==
    LET consumed(p1) == identifier_constant(p1, p1.previous)
    IN  consumed(consume(p, "TokenIdentifier", error_message))

\* Parser::define_variable
define_variable(p, global) == emit_bytes(p, "OpDefineGlobal", global)

\* Parser::var_declaration
var_declaration(p) ==
    LET initialized(global) ==
            IF check(global.parser, "TokenEqual")
            THEN expression(match_token(global.parser, "TokenEqual"))
            ELSE emit_byte(global.parser, "OpNil")
        declared(global) ==
            define_variable(consume(initialized(global), "TokenSemicolon",
                                    "Expect ';' after variable declaration"),
                            global.constant)
    IN  declared(parse_variable(p, "Expect variable name."))

\* Parser::expression_statement
expression_statement(p) ==
    emit_byte(consume(expression(p), "TokenSemicolon", "Expect ';' after value."), "OpPop")

\* Parser::print_statement
print_statement(p) ==
    emit_byte(consume(expression(p), "TokenSemicolon", "Expect ';' after value."), "OpPrint")

\* Parser::statement
statement(p) ==
    IF check(p, "TokenPrint")
    THEN print_statement(match_token(p, "TokenPrint"))
    ELSE expression_statement(p)

\* the token types at which synchronize stops
SynchronizeAt ==
    {"TokenClass", "TokenFun", "TokenVar", "TokenFor", "TokenIf", "TokenWhile",
     "TokenPrint", "TokenReturn"}

RECURSIVE synchronize_loop(_)
\* the while loop of Parser::synchronize
synchronize_loop(p) ==
    IF p.current.token_type = "TokenEof"
    THEN p
    ELSE IF p.previous.token_type = "TokenSemicolon"
    THEN p
    ELSE IF p.current.token_type \in SynchronizeAt
    THEN p
    ELSE synchronize_loop(Parser_advance(p))

\* a synchronize that clears had_error with panic_mode
synchronize_forgiving(p) ==
    synchronize_loop([p EXCEPT !.panic_mode = FALSE, !.had_error = FALSE])

\* Parser::synchronize
synchronize(p) == synchronize_loop([p EXCEPT !.panic_mode = FALSE])

\* a declaration that reports an error and consumes no token
declaration_stalls(p) == [p EXCEPT !.had_error = TRUE]

\* Parser::declaration
declaration(p) ==
    LET declared(p1) == IF p1.panic_mode THEN synchronize(p1) ELSE p1
    IN  declared(IF check(p, "TokenVar")
                 THEN var_declaration(match_token(p, "TokenVar"))
                 ELSE statement(p))

(***************************************************************************)
(* vm.rs                                                                   *)
(*                                                                         *)
(* A VM is a record of chunk, ip, stack and globals; its string_table is   *)
(* the variable table.  Values are dropped where Rust drops them, and a    *)
(* dropped ValObjString runs Drop for LoxString.  The build decides what a *)
(* refcount decrement at 0 does: it panics with overflow checks and wraps  *)
(* without them.                                                           *)
(***************************************************************************)
\* f64 arithmetic and comparison on fractions
NaN == <<0, 0>>

f64_neg(x) == <<-x[1], x[2]>>

f64_add(x, y) ==
    IF x[2] = 0 /\ y[2] = 0
    THEN (IF x = y THEN x ELSE NaN)
    ELSE IF x[2] = 0 THEN x
    ELSE IF y[2] = 0 THEN y
    ELSE Fraction(x[1] * y[2] + y[1] * x[2], x[2] * y[2])

f64_sub(x, y) == f64_add(x, f64_neg(y))

f64_mul(x, y) == Fraction(x[1] * y[1], x[2] * y[2])

f64_div(x, y) == f64_mul(x, IF y[1] < 0 THEN <<-y[2], -y[1]>> ELSE <<y[2], y[1]>>)

f64_lt(x, y) ==
    /\ x # NaN
    /\ y # NaN
    /\ IF x[2] = 0 /\ y[2] = 0 THEN x[1] < y[1] ELSE x[1] * y[2] < y[1] * x[2]

f64_eq(x, y) == x # NaN /\ x = y

\* #[derive(PartialEq)] for Value
Value_eq(a, b) ==
    /\ a.tag = b.tag
    /\ IF a.tag = "ValNumber" THEN f64_eq(a.value, b.value) ELSE a.value = b.value

\* Value::is_falsey
is_falsey(v) ==
    CASE v.tag = "ValBool" -> ~v.value
      [] v.tag = "ValNil" -> TRUE
      [] OTHER -> FALSE

\* VM::new
VM_new == [chunk |-> Chunk_new, ip |-> 0, stack |-> << >>, globals |-> << >>]

\* Drop for LoxString on the table t under a build with or without overflow
\* checks: the table after it, and whether it panicked
drop_string(t, h, overflow_checks) ==
    IF h.entry = Null
    THEN [table |-> t, panic |-> FALSE]
    ELSE IF t[h.entry].refcount = 0 /\ overflow_checks
    THEN [table |-> t, panic |-> TRUE]
    ELSE [table |-> [t EXCEPT ![h.entry].refcount = @ - 1], panic |-> FALSE]

RECURSIVE drop_values(_, _, _)
\* the drop of a sequence of Values, in order
drop_values(t, values, overflow_checks) ==
    IF values = << >>
    THEN [table |-> t, panic |-> FALSE]
    ELSE IF Head(values).tag # "ValObjString"
    THEN drop_values(t, Tail(values), overflow_checks)
    ELSE LET d == drop_string(t, Head(values).value, overflow_checks)
         IN  IF d.panic THEN d ELSE drop_values(d.table, Tail(values), overflow_checks)

\* impl fmt::Display for Value: the texts println! may write for value.  A
\* string is written with {:?}, between quotes; a number stands for its own
\* text
Display(t, value) ==
    CASE value.tag = "ValObjString" ->
            {<<"\"">> \o x \o <<"\"">> : x \in as_str(t, value.value)}
      [] value.tag = "ValNil" -> {<<"n", "i", "l">>}
      [] value.tag = "ValBool" ->
            {IF value.value THEN <<"t", "r", "u", "e">> ELSE <<"f", "a", "l", "s", "e">>}
      [] value.tag = "ValNumber" -> {<<value.value>>}

\* what a step of run leaves: the VM, the table, what was written to stdout
\* and stderr, and whether the loop goes on ("Continue") or how it ended
Outcome(v, t, out, result) == [vm |-> v, table |-> t, output |-> out, result |-> result]

\* the process aborted: an unwrap, an index or an arithmetic check failed
VMPanic(v, t) == Outcome(v, t, << >>, "Panic")

\* the step has written out and goes on or ends with result, once the values
\* in dropped are dropped
AfterDrop(v, t, dropped, overflow_checks, out, result) ==
    LET d == drop_values(t, dropped, overflow_checks)
    IN  IF d.panic THEN Outcome(v, t, out, "Panic") ELSE Outcome(v, d.table, out, result)

\* VM::runtime_error_formatted, followed by return Err(InterpretRuntimeError);
\* temporaries holds the Values the arm still owns
runtime_error(v, t, temporaries, overflow_checks, message) ==
    AfterDrop([v EXCEPT !.stack = << >>], t, v.stack \o temporaries, overflow_checks,
              <<[stream |-> "stderr", message |-> message, line |-> v.chunk.lines[v.ip]]>>,
              "InterpretRuntimeError")

\* the stack without its top k values, and the k-th value from the top
Popped(stack, k) == SubSeq(stack, 1, Len(stack) - k)
VM_peek(stack, distance) == stack[Len(stack) - distance]

\* a binary_op! that applies the operator to b and a
apply_op_swapped(a, op, b) ==
    CASE op = ">" -> f64_lt(a, b)
      [] op = "<" -> f64_lt(b, a)
      [] op = "-" -> f64_sub(b, a)
      [] op = "*" -> f64_mul(b, a)
      [] op = "/" -> f64_div(b, a)

\* a $op b for the operators the macro binary_op! is used with
apply_op(a, op, b) ==
    CASE op = ">" -> f64_lt(b, a)
      [] op = "<" -> f64_lt(a, b)
      [] op = "-" -> f64_sub(a, b)
      [] op = "*" -> f64_mul(a, b)
      [] op = "/" -> f64_div(a, b)

\* the macro binary_op!($value_type, $op)
binary_op(v, t, overflow_checks, value_type, op) ==
    IF Len(v.stack) < 2
    THEN VMPanic(v, t)
    ELSE LET b == VM_peek(v.stack, 0)
             a == VM_peek(v.stack, 1)
             v1 == [v EXCEPT !.stack = Popped(@, 2)]
         IN  IF a.tag = "ValNumber" /\ b.tag = "ValNumber"
             THEN Outcome([v1 EXCEPT !.stack =
                               Append(@, [tag |-> value_type,
                                          value |-> apply_op(a.value, op, b.value)])],
                          t, << >>, "Continue")
             ELSE runtime_error(v1, t, <<b, a>>, overflow_checks, "Operands must be numbers.")

\* the opcodes the match in run has an arm for
RunOpcodes ==
    {"OpPrint", "OpReturn", "OpConstant", "OpNegate", "OpNil", "OpTrue", "OpFalse",
     "OpPop", "OpGetGlobal", "OpDefineGlobal", "OpEqual", "OpGreater", "OpLess",
     "OpAdd", "OpSubtract", "OpMultiply", "OpDivide", "OpNot"}

\* the arms of run that start by popping or peeking the top of the stack
PopOpcodes == {"OpPrint", "OpPop", "OpNot", "OpNegate", "OpEqual"}

\* the arms of run that read a string constant.  v has read the opcode; the
\* operand byte is read here
global_step(v0, t, overflow_checks, instruction) ==
    IF v0.ip >= Len(v0.chunk.code) \/ v0.chunk.code[v0.ip + 1] >= Len(v0.chunk.constants)
    THEN VMPanic(v0, t)
    ELSE LET v == [v0 EXCEPT !.ip = @ + 1]
             name == v.chunk.constants[v0.chunk.code[v0.ip + 1] + 1]
         IN  IF name.tag # "ValObjString"
             THEN runtime_error(v, t, <<name>>, overflow_checks,
                                "OpDefineGlobal constant wasn't a string.")
             ELSE IF instruction = "OpGetGlobal"
             THEN IF name.value \notin DOMAIN v.globals
                  THEN runtime_error(v, t, <<name>>, overflow_checks,
                                     <<"Undefined variable", as_str(t, name.value)>>)
                  ELSE AfterDrop([v EXCEPT !.stack = Append(@, v.globals[name.value])],
                                 t, <<name>>, overflow_checks, << >>, "Continue")
             ELSE \* OpDefineGlobal: HashMap::insert drops the key it is given and
                  \* the value it replaces when the key is present
                  IF Len(v.stack) < 1
                  THEN VMPanic(v, t)
                  ELSE LET value == VM_peek(v.stack, 0)
                           present == name.value \in DOMAIN v.globals
                       IN  AfterDrop([v EXCEPT !.globals = (name.value :> value) @@ @,
                                               !.stack = Popped(@, 1)],
                                     t,
                                     (IF present THEN <<name, v.globals[name.value]>> ELSE << >>)
                                         \o <<value>>,
                                     overflow_checks, << >>, "Continue")

\* the OpAdd arm of run
add_step(v, t, overflow_checks) ==
    IF Len(v.stack) < 2
    THEN VMPanic(v, t)
    ELSE LET b == VM_peek(v.stack, 0)
             a == VM_peek(v.stack, 1)
             v1 == [v EXCEPT !.stack = Popped(@, 2)]
         IN  CASE a.tag = "ValObjString" /\ b.tag = "ValObjString" ->
                    LET popped == drop_values(t, <<b, a>>, overflow_checks)
                        ls == CHOOSE x \in as_str(popped.table, a.value) : TRUE
                        rs == CHOOSE x \in as_str(popped.table, b.value) : TRUE
                        r == concatenate(popped.table, ls, rs)
                    IN  IF popped.panic
                        THEN VMPanic(v, t)
                        ELSE AfterDrop([v1 EXCEPT !.stack = Append(@, ValObjString(r.string))],
                                       r.table, <<b, a>>, overflow_checks, << >>, "Continue")
               [] a.tag = "ValNumber" /\ b.tag = "ValNumber" ->
                    Outcome([v1 EXCEPT !.stack = Append(@, ValNumber(f64_add(b.value, a.value)))],
                            t, << >>, "Continue")
               [] OTHER ->
                    runtime_error(v, t, <<b, a>>, overflow_checks,
                                  "Operand must be two numbers or two strings.")

\* one turn of the loop of VM::run
run_step(v0, t, overflow_checks) ==
    IF v0.ip >= Len(v0.chunk.code)
    THEN VMPanic(v0, t)
    ELSE
    LET instruction == v0.chunk.code[v0.ip + 1]
        v == [v0 EXCEPT !.ip = @ + 1]
        top == VM_peek(v.stack, 0)
        push(value) == Outcome([v EXCEPT !.stack = Append(@, value)], t, << >>, "Continue")
    IN  CASE instruction \notin RunOpcodes ->
                \* from_u8 gives no opcode that run knows
                Outcome(v, t, << >>, "InterpretRuntimeError")
          [] instruction = "OpReturn" -> Outcome(v, t, << >>, "Ok")
          [] instruction = "OpNil" -> push(ValNil)
          [] instruction = "OpTrue" -> push(ValBool(TRUE))
          [] instruction = "OpFalse" -> push(ValBool(FALSE))
          [] instruction = "OpConstant" ->
                IF v.ip >= Len(v.chunk.code) \/ v.chunk.code[v.ip + 1] >= Len(v.chunk.constants)
                THEN VMPanic(v, t)
                ELSE Outcome([v EXCEPT !.ip = @ + 1,
                                       !.stack = Append(@, v.chunk.constants[v.chunk.code[v.ip + 1] + 1])],
                             t, << >>, "Continue")
          [] instruction \in {"OpGetGlobal", "OpDefineGlobal"} ->
                global_step(v, t, overflow_checks, instruction)
          [] instruction = "OpAdd" -> add_step(v, t, overflow_checks)
          [] instruction = "OpSubtract" -> binary_op(v, t, overflow_checks, "ValNumber", "-")
          [] instruction = "OpMultiply" -> binary_op(v, t, overflow_checks, "ValNumber", "*")
          [] instruction = "OpDivide" -> binary_op(v, t, overflow_checks, "ValNumber", "/")
          [] instruction = "OpGreater" -> binary_op(v, t, overflow_checks, "ValBool", ">")
          [] instruction = "OpLess" -> binary_op(v, t, overflow_checks, "ValBool", "<")
          [] instruction \in PopOpcodes /\ Len(v.stack) < 1 ->
                \* pop and peek index the Vec out of range
                VMPanic(v, t)
          [] instruction = "OpPrint" /\ Len(v.stack) >= 1 ->
                AfterDrop([v EXCEPT !.stack = Popped(@, 1)], t, <<top>>, overflow_checks,
                          <<[stream |-> "stdout", value |-> top]>>, "Continue")
          [] instruction = "OpPop" /\ Len(v.stack) >= 1 ->
                AfterDrop([v EXCEPT !.stack = Popped(@, 1)], t, <<top>>, overflow_checks,
                          << >>, "Continue")
          [] instruction = "OpNot" /\ Len(v.stack) >= 1 ->
                AfterDrop([v EXCEPT !.stack = Append(Popped(@, 1), ValBool(is_falsey(top)))],
                          t, <<top>>, overflow_checks, << >>, "Continue")
          [] instruction = "OpNegate" /\ Len(v.stack) >= 1 ->
                IF top.tag = "ValNumber"
                THEN Outcome([v EXCEPT !.stack = Append(Popped(@, 1), ValNumber(f64_neg(top.value)))],
                             t, << >>, "Continue")
                ELSE runtime_error(v, t, <<top>>, overflow_checks, "Operand must be a number.")
          [] instruction = "OpEqual" /\ Len(v.stack) >= 1 ->
                IF Len(v.stack) < 2
                THEN VMPanic(v, t)
                ELSE AfterDrop([v EXCEPT !.stack =
                                    Append(Popped(@, 2), ValBool(Value_eq(VM_peek(v.stack, 1), top)))],
                               t, <<top, VM_peek(v.stack, 1)>>, overflow_checks, << >>, "Continue")

\* the characters of the sources the scanner is run on
ScannerChars == {" ", "\n", "/", "\"", "1", ".", "=", "!", "o", "r", "f", "@"}

\* the sources the scanner is run on: every sequence of them up to a length
ScannerSources == UNION {[1..n -> ScannerChars] : n \in 0..MaxSourceLen}

\* one scan_token call
ScanToken ==
    /\ ~panicked
    /\ LET r == scan_token(scanner)
       IN  /\ scanner' = r.scanner
           /\ token' = r.token
           /\ panicked' = (r.token.token_type = "Panic")
    /\ UNCHANGED notScannerVars

\* Scanner::new on some source
InitScanner ==
    /\ scanner \in {Scanner_new(source) : source \in ScannerSources}
    /\ token = PlaceholderToken
    /\ panicked = FALSE
    /\ table = << >>
    /\ handles = EmptyBag
    /\ allocated = {}
    /\ last = Unused
    /\ NoInterpreter

NextScanner == ScanToken

\* a Scanner whose scan_token is called again and again
SpecScanner == InitScanner /\ [][NextScanner]_vars

(***************************************************************************)
(* VM::new and VM::interpret                                               *)
(*                                                                         *)
(* A VM is constructed once and handed the sources of a program one after  *)
(* the other.  The compile call of interpret is followed declaration by    *)
(* declaration and run instruction by instruction.                         *)
(***************************************************************************)
RECURSIVE Join(_)
\* the source whose lexemes are separated by one space
Join(lexemes) ==
    IF lexemes = << >>
    THEN << >>
    ELSE IF Len(lexemes) = 1
    THEN lexemes[1]
    ELSE lexemes[1] \o <<" ">> \o Join(Tail(lexemes))

PrintKeyword == <<"p", "r", "i", "n", "t">>
VarKeyword == <<"v", "a", "r">>
TrueKeyword == <<"t", "r", "u", "e">>

\* the lexemes of the tokens that have the infix rule binary
BinaryOperators ==
    {<<"=", "=">>, <<"!", "=">>, <<"<">>, <<"<", "=">>, <<">">>, <<">", "=">>,
     <<"+">>, <<"-">>, <<"*">>, <<"/">>}

\* the operands a, b, c of the sources with two binary operators
OperandTriples ==
    {<<<<"1">>, <<"2">>, <<"3">>>>, <<<<"8">>, <<"3">>, <<"2">>>>, <<<<"8">>, <<"4">>, <<"2">>>>}

\* print a op1 b op2 c ;
InfixSource(a, op1, b, op2, c) == Join(<<PrintKeyword, a, op1, b, op2, c, <<";">>>>)

\* print ( a op1 b ) op2 c ;
GroupedSource(a, op1, b, op2, c) ==
    Join(<<PrintKeyword, <<"(">>, a, op1, b, <<")">>, op2, c, <<";">>>>)

PrecedenceSources ==
    {InfixSource(t[1], op1, t[2], op2, t[3]) :
        t \in OperandTriples, op1 \in BinaryOperators, op2 \in BinaryOperators}
    \cup
    {GroupedSource(t[1], op1, t[2], op2, t[3]) :
        t \in OperandTriples, op1 \in BinaryOperators, op2 \in BinaryOperators}

\* expressions, as lexemes, that are not a bare identifier
NotIdentifierTargets ==
    {<<<<"1">>, <<"+">>, <<"2">>>>,
     <<<<"a">>, <<"+">>, <<"b">>>>,
     <<<<"(">>, <<"a">>, <<")">>>>,
     <<<<"-">>, <<"a">>>>,
     <<<<"!">>, <<"a">>>>,
     <<<<"1">>>>,
     <<TrueKeyword>>,
     <<<<"\"", "s", "\"">>>>,
     <<<<"a">>, <<"*">>, <<"b">>, <<"-">>, <<"1">>>>}

\* a bare identifier, and an assignment to one
IdentifierTargets == {<<<<"a">>>>, <<<<"a">>, <<"=">>, <<"1">>>>}

\* what precedes the expression in its statement: nothing, print, the start
\* of a var declaration, a character the scanner rejects, and such a
\* character in a statement of its own
CleanPrefixes == {<< >>, <<PrintKeyword>>, <<VarKeyword, <<"x">>, <<"=">>>>, <<<<"@">>, <<";">>>>}
PanicPrefixes == {<<<<"@">>>>, <<PrintKeyword, <<"@">>>>}

\* what follows the '='
AssignedValues == {<<"3">>, <<"c">>}

\* prefix target = value ;
AssignmentSource(prefix, target, value) ==
    Join(prefix \o target \o <<<<"=">>, value, <<";">>>>)

AssignmentSources ==
    {AssignmentSource(prefix, target, value) :
        prefix \in CleanPrefixes \cup PanicPrefixes,
        target \in NotIdentifierTargets \cup IdentifierTargets,
        value \in AssignedValues}

\* a source that compiles and runs
PrintOne == Join(<<PrintKeyword, <<"1">>, <<";">>>>)

NilKeyword == <<"n", "i", "l">>
StringAB == <<"\"", "a", "b", "\"">>
StringCD == <<"\"", "c", "d", "\"">>

\* the lines of a session: declarations, reads and assignments of globals,
\* sources that fail to compile or to run, and string concatenations
VarA1 == Join(<<VarKeyword, <<"a">>, <<"=">>, <<"1">>, <<";">>>>)
PrintA == Join(<<PrintKeyword, <<"a">>, <<";">>>>)
AssignA2 == Join(<<<<"a">>, <<"=">>, <<"2">>, <<";">>>>)
PrintB == Join(<<PrintKeyword, <<"b">>, <<";">>>>)
OneIsTwo == Join(<<<<"1">>, <<"=">>, <<"2">>, <<";">>>>)
PrintNegateNil == Join(<<PrintKeyword, <<"-">>, NilKeyword, <<";">>>>)
PrintABCD == Join(<<PrintKeyword, StringAB, <<"+">>, StringCD, <<";">>>>)

SessionLines == {VarA1, PrintA, AssignA2, PrintB, OneIsTwo, PrintNegateNil, PrintABCD}

\* the sessions: up to MaxCalls lines, in any order and with repetitions
Sessions == UNION {[1..n -> SessionLines] : n \in 1..MaxCalls}

\* var a = 1 ; a = 2 ; print a ;
VarAssignPrintA ==
    Join(<<VarKeyword, <<"a">>, <<"=">>, <<"1">>, <<";">>,
           <<"a">>, <<"=">>, <<"2">>, <<";">>, PrintKeyword, <<"a">>, <<";">>>>)

\* print - nil ; var a = 1 ; print a ;
NegateNilVarPrintA ==
    Join(<<PrintKeyword, <<"-">>, NilKeyword, <<";">>,
           VarKeyword, <<"a">>, <<"=">>, <<"1">>, <<";">>, PrintKeyword, <<"a">>, <<";">>>>)

\* sources of several statements
\* var a = 1 ; var a = 2 ; print a ;
RedeclarePrintA ==
    Join(<<VarKeyword, <<"a">>, <<"=">>, <<"1">>, <<";">>,
           VarKeyword, <<"a">>, <<"=">>, <<"2">>, <<";">>, PrintKeyword, <<"a">>, <<";">>>>)

Scripts == {VarAssignPrintA, NegateNilVarPrintA, RedeclarePrintA}

\* sources with characters the scanner rejects and strings without an end,
\* alone, after a statement, and after a syntax error: 1 1 @ ; reports the
\* missing ';' and meets the '@' while it resynchronizes
UnexpectedCharacter == <<"@">>
UnterminatedString == Join(<<PrintKeyword, <<"\"", "a", "b">>>>)
PrintThenCharacter == Join(<<PrintKeyword, <<"1">>, <<";">>, <<"@">>>>)
CharacterThenPrint == Join(<<<<"@">>, PrintKeyword, <<"1">>, <<";">>>>)
SkippedCharacter == Join(<<<<"1">>, <<"1">>, <<"@">>, <<";">>>>)
SkippedCharacterThenPrint == Join(<<<<"1">>, <<"1">>, <<"@">>, <<";">>, PrintKeyword, <<"2">>, <<";">>>>)
SkippedCharacterThenError == Join(<<<<"1">>, <<"1">>, <<"@">>, <<";">>, <<"2">>, <<"2">>, <<";">>>>)
SkippedToPrint == Join(<<<<"1">>, <<"1">>, PrintKeyword, <<"2">>, <<";">>>>)
SkippedToEnd == Join(<<<<"1">>, <<"1">>, <<"2">>>>)

ErrorSources ==
    {UnexpectedCharacter, UnterminatedString, PrintThenCharacter, CharacterThenPrint,
     SkippedCharacter, SkippedCharacterThenPrint, SkippedCharacterThenError,
     SkippedToPrint, SkippedToEnd}

\* the lexemes of the comparison and equality operators
ComparisonOperators ==
    {<<"=", "=">>, <<"!", "=">>, <<"<">>, <<"<", "=">>, <<">">>, <<">", "=">>}

\* operands of a comparison, with the number each evaluates to: 1, 2,
\* infinity and NaN
ComparedOperands ==
    {[lexemes |-> <<<<"1">>>>, number |-> <<1, 1>>],
     [lexemes |-> <<<<"2">>>>, number |-> <<2, 1>>],
     [lexemes |-> <<<<"1">>, <<"/">>, <<"0">>>>, number |-> <<1, 0>>],
     [lexemes |-> <<<<"0">>, <<"/">>, <<"0">>>>, number |-> <<0, 0>>]}

\* print a op b ;
ComparisonSource(a, op, b) ==
    Join(<<PrintKeyword>> \o a.lexemes \o <<op>> \o b.lexemes \o <<<<";">>>>)

ComparisonSources ==
    {ComparisonSource(a, op, b) :
        a \in ComparedOperands, op \in ComparisonOperators, b \in ComparedOperands}

\* operands of every variant: nil, the booleans, numbers, string literals, and
\* the global s, which holds the string "a"
FalseKeyword == <<"f", "a", "l", "s", "e">>
StringA == <<"\"", "a", "\"">>
StringB == <<"\"", "b", "\"">>
MixedOperands ==
    {NilKeyword, TrueKeyword, FalseKeyword, <<"0">>, <<"1">>, StringA, StringB, <<"s">>}

\* the lexemes of the operators that compile to one instruction
MixedOperators == {<<"=", "=">>, <<"+">>, <<"-">>, <<"*">>, <<"/">>, <<"<">>, <<">">>}

\* var s = "a" ; print a op b ;
OperatorSource(a, op, b) ==
    Join(<<VarKeyword, <<"s">>, <<"=">>, StringA, <<";">>, PrintKeyword, a, op, b, <<";">>>>)

\* var s = "a" ; print ! a ;
NotSource(a) ==
    Join(<<VarKeyword, <<"s">>, <<"=">>, StringA, <<";">>, PrintKeyword, <<"!">>, a, <<";">>>>)

\* print "a" + "b" == "ab" ;  and  print "a" + "b" == "a" + "b" ;
ConcatenationEqualsLiteral ==
    Join(<<PrintKeyword, StringA, <<"+">>, StringB, <<"=", "=">>, StringAB, <<";">>>>)
ConcatenationEqualsConcatenation ==
    Join(<<PrintKeyword, StringA, <<"+">>, StringB, <<"=", "=">>, StringA, <<"+">>, StringB, <<";">>>>)

OperatorSources ==
    {OperatorSource(a, op, b) : a \in MixedOperands, op \in MixedOperators, b \in MixedOperands}
    \cup {NotSource(a) : a \in MixedOperands}
    \cup {ConcatenationEqualsLiteral, ConcatenationEqualsConcatenation}

\* n times the source s
Repeat(s, n) == [i \in 1..(n * Len(s)) |-> s[((i - 1) % Len(s)) + 1]]

\* 1;1;...1; with as many constants as a one-byte index can name, and with
\* one more
FullPool == Repeat(<<"1", ";">>, U8Max + 1)
OverfullPool == Repeat(<<"1", ";">>, U8Max + 2)

\* the programs: a source of the families above, after some that ran, and
\* the sessions
Programs ==
    {[i \in 1..n |-> IF i < n THEN PrintOne ELSE source] :
        n \in 1..MaxSources,
        source \in PrecedenceSources \cup AssignmentSources \cup Scripts \cup ErrorSources
                       \cup ComparisonSources}
    \cup Sessions
    \cup {<<FullPool>>, <<OverfullPool>>}
    \cup {<<source>> : source \in OperatorSources}

\* the scanner reached the panic! of make_token
ParserPanicked(p) == "Panic" \in {p.current.token_type, p.previous.token_type}

\* VM::interpret up to the first declaration: Parser::new and advance
Interpret ==
    /\ pc = "idle"
    /\ input # << >>
    /\ \E p \in {Parser_advance(Parser_new(table, Head(input)))} :
           /\ parser' = p
           /\ table' = p.string_table
           /\ panicked' = ParserPanicked(p)
           /\ pc' = IF ParserPanicked(p) THEN "aborted" ELSE "compile"
    /\ input' = Tail(input)
    /\ returned' = "Pending"
    /\ UNCHANGED <<vm, output, build_checks, notInterpreterVars>>

\* one turn of the loop of compile: match_token(TokenEof) fails, declaration
Declaration ==
    /\ pc = "compile"
    /\ ~check(parser, "TokenEof")
    /\ \E p \in {declaration(parser)} :
           /\ parser' = p
           /\ table' = p.string_table
           /\ panicked' = ParserPanicked(p)
           /\ pc' = IF ParserPanicked(p) THEN "aborted" ELSE "compile"
    /\ UNCHANGED <<input, vm, output, returned, build_checks, notInterpreterVars>>

\* an interpret that runs whatever chunk compile was writing
EndCompileRunsAnyway ==
    /\ pc = "compile"
    /\ check(parser, "TokenEof")
    /\ \E p \in {end_compiler(match_token(parser, "TokenEof"))} :
       \E d \in {drop_values(p.string_table, vm.chunk.constants, build_checks)} :
           /\ parser' = p
           /\ table' = d.table
           /\ panicked' = (ParserPanicked(p) \/ d.panic)
           /\ IF ParserPanicked(p) \/ d.panic
              THEN pc' = "aborted" /\ UNCHANGED <<vm, returned>>
              ELSE /\ pc' = "run"
                   /\ vm' = [vm EXCEPT !.chunk = p.compiling_chunk, !.ip = 0]
                   /\ UNCHANGED returned
    /\ UNCHANGED <<input, output, build_checks, notInterpreterVars>>

\* the end of compile and what interpret does with what it returns: on an
\* error the Parser is dropped with its chunk and interpret returns; else
\* the chunk replaces the VM's, which is dropped, and ip is 0
EndCompile ==
    /\ pc = "compile"
    /\ check(parser, "TokenEof")
    /\ \E p \in {end_compiler(match_token(parser, "TokenEof"))} :
       \E d \in {drop_values(p.string_table,
                               IF p.had_error THEN p.compiling_chunk.constants
                                              ELSE vm.chunk.constants,
                               build_checks)} :
           /\ parser' = p
           /\ table' = d.table
           /\ panicked' = (ParserPanicked(p) \/ d.panic)
           /\ IF ParserPanicked(p) \/ d.panic
              THEN pc' = "aborted" /\ UNCHANGED <<vm, returned>>
              ELSE IF p.had_error
              THEN /\ pc' = "idle"
                   /\ returned' = "InterpretCompileError"
                   /\ UNCHANGED vm
              ELSE /\ pc' = "run"
                   /\ vm' = [vm EXCEPT !.chunk = p.compiling_chunk, !.ip = 0]
                   /\ UNCHANGED returned
    /\ UNCHANGED <<input, output, build_checks, notInterpreterVars>>

\* a byte for which FromPrimitive::from_u8 gives None
NoOpcode == "None"

\* a loop of run that skips a byte that is no opcode
RunStepSkipsUnknown ==
    /\ pc = "run"
    /\ \E o \in {run_step(vm, table, build_checks)} :
           \E skipped \in {vm.ip < Len(vm.chunk.code) /\ vm.chunk.code[vm.ip + 1] = NoOpcode} :
               /\ vm' = o.vm
               /\ table' = o.table
               /\ output' = output \o o.output
               /\ panicked' = (o.result = "Panic")
               /\ pc' = CASE o.result = "Continue" \/ skipped -> "run"
                          [] o.result = "Panic" -> "aborted"
                          [] OTHER -> "idle"
               /\ returned' = IF o.result \in {"Continue", "Panic"} \/ skipped
                               THEN returned ELSE o.result
    /\ UNCHANGED <<input, parser, build_checks, notInterpreterVars>>

\* a loop of run that goes on after an instruction returned a RuntimeError
RunStepResumes ==
    /\ pc = "run"
    /\ \E o \in {run_step(vm, table, build_checks)} :
           /\ vm' = o.vm
           /\ table' = o.table
           /\ output' = output \o o.output
           /\ panicked' = (o.result = "Panic")
           /\ pc' = CASE o.result \in {"Continue", "InterpretRuntimeError"} -> "run"
                      [] o.result = "Panic" -> "aborted"
                      [] OTHER -> "idle"
           /\ returned' = IF o.result \in {"Continue", "Panic"} THEN returned ELSE o.result
    /\ UNCHANGED <<input, parser, build_checks, notInterpreterVars>>

\* one turn of the loop of VM::run
RunStep ==
    /\ pc = "run"
    /\ \E o \in {run_step(vm, table, build_checks)} :
           /\ vm' = o.vm
           /\ table' = o.table
           /\ output' = output \o o.output
           /\ panicked' = (o.result = "Panic")
           /\ pc' = CASE o.result = "Continue" -> "run"
                      [] o.result = "Panic" -> "aborted"
                      [] OTHER -> "idle"
           /\ returned' = IF o.result \in {"Continue", "Panic"} THEN returned ELSE o.result
    /\ UNCHANGED <<input, parser, build_checks, notInterpreterVars>>

\* VM::new, in a build with or without overflow checks, before the first
\* source of a program
Init ==
    /\ input \in Programs
    /\ pc = "idle"
    /\ parser = Unused
    /\ vm = VM_new
    /\ output = << >>
    /\ returned = "None"
    /\ build_checks \in BOOLEAN
    /\ table = << >>
    /\ panicked = FALSE
    /\ handles = EmptyBag
    /\ allocated = {}
    /\ last = Unused
    /\ scanner = Unused
    /\ token = Unused

Next ==
    \/ Interpret
    \/ Declaration
    \/ EndCompile
    \/ RunStep

\* a VM interpreting the sources of a program
Spec == Init /\ [][Next]_vars

(***************************************************************************)
(* compile on any text                                                     *)
(***************************************************************************)
\* every text up to a length, the sources with errors to recover from, the
\* scripts, and a concatenation
CompiledSources ==
    UNION {[1..n -> ScannerChars] : n \in 0..MaxCompiledLen}
        \cup ErrorSources \cup Scripts \cup {PrintABCD}

\* VM::new and VM::interpret at its call of compile, Parser::new and the
\* first advance done
InitCompile ==
    /\ \E source \in CompiledSources : parser = Parser_advance(Parser_new(<< >>, source))
    /\ table = parser.string_table
    /\ panicked = ParserPanicked(parser)
    /\ pc = IF ParserPanicked(parser) THEN "aborted" ELSE "compile"
    /\ input = << >>
    /\ vm = VM_new
    /\ output = << >>
    /\ returned = "Pending"
    /\ build_checks \in BOOLEAN
    /\ handles = EmptyBag
    /\ allocated = {}
    /\ last = Unused
    /\ scanner = Unused
    /\ token = Unused

NextCompile ==
    \/ Declaration
    \/ EndCompile
    \/ RunStep

\* compile and run as the one thread they are: it does not stop where it has
\* a step to take.  For Declaration this is weak fairness with the enabling
\* condition written out: the loop of compile takes another turn while the
\* current token is not Eof
SpecCompile ==
    /\ InitCompile
    /\ [][NextCompile]_vars
    /\ ([]<>(~(pc = "compile" /\ ~check(parser, "TokenEof"))) \/ []<><<Declaration>>_vars)
    /\ WF_vars(EndCompile)
    /\ WF_vars(RunStep)

(***************************************************************************)
(* VM::run on a chunk that compile did not write                           *)
(***************************************************************************)

\* the bytes of the chunks: opcodes without operand, and one that is none
ChunkBytes ==
    {"OpNil", "OpTrue", "OpPop", "OpPrint", "OpNegate", "OpNot", "OpAdd", "OpEqual",
     "OpLess", "OpReturn", NoOpcode}

\* the chunks: every sequence of these bytes up to a length, all of line 1
Chunks ==
    {[code |-> code, lines |-> [i \in 1..Len(code) |-> 1], constants |-> << >>] :
        code \in UNION {[1..n -> ChunkBytes] : n \in 1..MaxCode}}

\* a new VM about to run a chunk from its first byte
InitRun ==
    /\ \E chunk \in Chunks : vm = [VM_new EXCEPT !.chunk = chunk]
    /\ pc = "run"
    /\ input = << >>
    /\ parser = Unused
    /\ output = << >>
    /\ returned = "Pending"
    /\ build_checks \in BOOLEAN
    /\ table = << >>
    /\ panicked = FALSE
    /\ handles = EmptyBag
    /\ allocated = {}
    /\ last = Unused
    /\ scanner = Unused
    /\ token = Unused

NextRun == RunStep

\* VM::run on any chunk
SpecRun == InitRun /\ [][NextRun]_vars

(***************************************************************************)
(* Properties of the string table                                          *)
(***************************************************************************)
\* the LoxString values alive outside the table
Live == BagToSet(handles)

\* live handles that have not been through remove_string
Referring == {h \in Live : h.entry # Null}

\* the number of live handles whose entry pointer is a
Refs(a) == BagCardinality([h \in {x \in Live : x.entry = a} |-> handles[h]])

\* C1: interning is unique.  Without clones, every handle that has not been
\* removed reads exactly one content, and two such handles read the same
\* content exactly when they are the identical handle (same string pointer
\* and same entry pointer), whatever allocate_string_from_str,
\* allocate_string_from_box and concatenate calls produced them.
C1_InterningUnique ==
    \A h1 \in Referring, h2 \in Referring :
        /\ Cardinality(as_str(table, h1)) = 1
        /\ (as_str(table, h1) \cap as_str(table, h2) # {}) <=> (h1 = h2)

\* two handles of one content, a handle of another content, the last of
\* them made by concatenate
C1_Witness ==
    /\ last = "concatenate"
    /\ \E h1 \in Referring, h2 \in Referring :
         /\ CopiesIn(h1, handles) >= 2
         /\ as_str(table, h1) # as_str(table, h2)

\* C2 as amended: the number of entries is the number of distinct contents
\* allocated and not removed by remove_string since.
C2_EntriesAreAllocatedContents ==
    Cardinality(DOMAIN table) = Cardinality(allocated)

\* an entry that no handle refers to any more is still counted
C2_Witness ==
    /\ last = "drop"
    /\ \E a \in DOMAIN table : Refs(a) = 0 /\ table[a].data \in allocated

\* C2 as stated: the number of entries is the number of distinct contents
\* that still have a handle that was not released.
C2_EntriesAreHeldContents ==
    Cardinality(DOMAIN table) =
        Cardinality({table[h.entry].data : h \in {x \in Live : x.entry \in DOMAIN table}})

\* C3: every entry's refcount is the number of live handles that refer to
\* it, copies made by clone included, and is never below zero.
C3_RefcountIsLiveHandles ==
    \A a \in DOMAIN table :
        /\ table[a].refcount = Refs(a)
        /\ table[a].refcount >= 0

\* C4: without clones the refcount of an entry is the number of allocations
\* of its content less the number of handles released, so once all handles
\* but one are released it is exactly 1, and remove_string passes its three
\* checks on the handle that remains.
C4_LastHandleRemovable ==
    \A a \in DOMAIN table :
        /\ table[a].refcount = Refs(a)
        /\ \A h \in Live :
             (h.entry = a /\ Refs(a) = 1) =>
                 /\ table[a].refcount = 1
                 /\ \A s \in as_str(table, h) : RemoveChecks(table, h, s)

\* a release has just left an entry with one handle and refcount 1
C4_Witness ==
    /\ last = "drop"
    /\ \E h \in Live :
         /\ h.entry \in DOMAIN table
         /\ Refs(h.entry) = 1
         /\ table[h.entry].refcount = 1
         /\ \A s \in as_str(table, h) : RemoveChecks(table, h, s)

\* C5: no use after free.  Every live handle that has not been through
\* remove_string points at an entry still in the table and at that entry's
\* string data.
C5_NoUseAfterFree ==
    \A h \in Referring :
        /\ h.entry \in DOMAIN table
        /\ h.string[1] = table[h.entry].data_ptr

\* C6: entries are reclaimed by remove_string only.  In a step that does not
\* panic: a drop leaves the set of entries as it is; an entry leaves the
\* table only in a remove_string on a handle pointing at it, when its
\* refcount is exactly 1, and it is the only entry that leaves; an entry
\* that enters the table ends the allocation with refcount 1.
C6_ReclaimedOnlyByRemove ==
    [][~panicked' =>
        /\ last' = "drop" => DOMAIN table' = DOMAIN table
        /\ \A a \in DOMAIN table \ DOMAIN table' :
             /\ last' = "remove_string"
             /\ table[a].refcount = 1
             /\ \E h \in Live :
                  /\ h.entry = a
                  /\ handles' = (handles (-) One(h)) (+) One([h EXCEPT !.entry = Null])
             /\ Cardinality(DOMAIN table') = Cardinality(DOMAIN table) - 1
        /\ \A a \in DOMAIN table' \ DOMAIN table : table'[a].refcount = 1
      ]_vars

\* a handle has been through remove_string and a later allocation has made
\* a fresh entry, with refcount 1, in the storage it points at
C6_Witness ==
    /\ last \in {"allocate_string_from_str", "allocate_string_from_box"}
    /\ \E h \in Live, h2 \in Referring :
         /\ h.entry = Null
         /\ h2.string = h.string
         /\ h2.entry \in DOMAIN table
         /\ table[h2.entry].refcount = 1

(***************************************************************************)
(* Properties of the scanner                                               *)
(***************************************************************************)
\* C7: scan_token is idempotent at the end of the source.  Once an Eof token
\* has been returned the scanner is exhausted, and a call on an exhausted
\* scanner returns an Eof token with empty text, does not panic and leaves
\* the scanner exhausted, so that every later call does the same.
C7_EofIdempotent ==
    /\ token.token_type = "TokenEof" =>
          /\ token.string = << >>
          /\ scanner.current > Len(scanner.source)
    /\ scanner.current > Len(scanner.source) =>
          LET r == scan_token(scanner)
          IN  /\ r.token.token_type = "TokenEof"
              /\ r.token.string = << >>
              /\ r.scanner.current > Len(r.scanner.source)
              /\ token.token_type = "TokenEof" => r.scanner = scanner /\ r.token = token

\* Eof has been returned for a source of several lines
C7_Witness ==
    /\ token.token_type = "TokenEof"
    /\ scanner.line > 1
    /\ scanner.start > 2

(***************************************************************************)
(* Properties of the compiler                                              *)
(***************************************************************************)
\* the token type of an operator's lexeme, and the precedence of its rule
TokenTypeOf(op) == scan_token(Scanner_new(op)).token.token_type
PrecedenceOf(op) == get_rule(TokenTypeOf(op)).precedence

\* OP: the instructions that stand for a binary operator
OP(op) ==
    CASE op = <<"=", "=">> -> <<"OpEqual">>
      [] op = <<"!", "=">> -> <<"OpEqual", "OpNot">>
      [] op = <<"<">> -> <<"OpLess">>
      [] op = <<"<", "=">> -> <<"OpGreater", "OpNot">>
      [] op = <<">">> -> <<"OpGreater">>
      [] op = <<">", "=">> -> <<"OpLess", "OpNot">>
      [] op = <<"+">> -> <<"OpAdd">>
      [] op = <<"-">> -> <<"OpSubtract">>
      [] op = <<"*">> -> <<"OpMultiply">>
      [] op = <<"/">> -> <<"OpDivide">>

\* the code of a print statement whose operands are the constants 0, 1, 2:
\* a b c OP2 OP1, and a b OP1 c OP2
RightFirst(op1, op2) ==
    <<"OpConstant", 0, "OpConstant", 1, "OpConstant", 2>> \o OP(op2) \o OP(op1)
        \o <<"OpPrint", "OpReturn">>
LeftFirst(op1, op2) ==
    <<"OpConstant", 0, "OpConstant", 1>> \o OP(op1) \o <<"OpConstant", 2>> \o OP(op2)
        \o <<"OpPrint", "OpReturn">>

ArithmeticOperators == {<<"+">>, <<"-">>, <<"*">>, <<"/">>}

\* the number x op y
Apply(op, x, y) ==
    CASE op = <<"+">> -> f64_add(x, y)
      [] op = <<"-">> -> f64_sub(x, y)
      [] op = <<"*">> -> f64_mul(x, y)
      [] op = <<"/">> -> f64_div(x, y)

\* the number a literal denotes
NumberOf(literal_text) == f64_from_str(literal_text)

\* compile has returned for source, the source interpret was last given
AfterCompile(source) ==
    /\ returned # "None"
    /\ parser.scanner.source = source
    /\ pc \in {"run", "idle"}

\* interpret has returned for source
AfterInterpret(source) == AfterCompile(source) /\ pc = "idle"

\* compile returned a chunk with this code, whose constants are a, b, c
CompiledTo(code, t) ==
    /\ ~parser.had_error
    /\ vm.chunk.code = code
    /\ vm.chunk.constants = [i \in 1..3 |-> ValNumber(NumberOf(t[i]))]

\* interpret returned Ok and the last thing written is the number x, on stdout
Printed(x) ==
    /\ returned = "Ok"
    /\ output # << >>
    /\ output[Len(output)] = [stream |-> "stdout", value |-> ValNumber(x)]

\* the source given to compile is one with two binary operators: the sources
\* that C8 and C9 are about
CompiledPrecedenceSource ==
    returned # "None" /\ parser.scanner.source \in PrecedenceSources

\* C8: where op2 has strictly higher precedence than op1, a op1 b op2 c
\* compiles to a b c OP2 OP1 and ( a op1 b ) op2 c compiles to a b OP1 c OP2;
\* with arithmetic operators the statement prints a op1 (b op2 c) for the
\* first and (a op1 b) op2 c for the second: 1 + 2 * 3 prints 7 and
\* (1 + 2) * 3 prints 9
C8_PrecedenceCorrect ==
    CompiledPrecedenceSource =>
    /\ \A t \in OperandTriples, op1 \in BinaryOperators, op2 \in BinaryOperators :
          /\ (/\ AfterCompile(InfixSource(t[1], op1, t[2], op2, t[3]))
              /\ PrecedenceOf(op2) > PrecedenceOf(op1))
             => /\ CompiledTo(RightFirst(op1, op2), t)
                /\ (pc = "idle" /\ {op1, op2} \subseteq ArithmeticOperators)
                      => Printed(Apply(op1, NumberOf(t[1]),
                                       Apply(op2, NumberOf(t[2]), NumberOf(t[3]))))
          /\ (/\ AfterCompile(GroupedSource(t[1], op1, t[2], op2, t[3]))
              /\ PrecedenceOf(op2) > PrecedenceOf(op1))
             => /\ CompiledTo(LeftFirst(op1, op2), t)
                /\ (pc = "idle" /\ {op1, op2} \subseteq ArithmeticOperators)
                      => Printed(Apply(op2, Apply(op1, NumberOf(t[1]), NumberOf(t[2])),
                                       NumberOf(t[3])))
    /\ AfterInterpret(InfixSource(<<"1">>, <<"+">>, <<"2">>, <<"*">>, <<"3">>))
          => Printed(<<7, 1>>)
    /\ AfterInterpret(GroupedSource(<<"1">>, <<"+">>, <<"2">>, <<"*">>, <<"3">>))
          => Printed(<<9, 1>>)

\* print 1 + 2 * 3 ; was compiled to 1 2 3 OpMultiply OpAdd and has printed 7
C8_Witness ==
    /\ AfterInterpret(InfixSource(<<"1">>, <<"+">>, <<"2">>, <<"*">>, <<"3">>))
    /\ vm.chunk.code = <<"OpConstant", 0, "OpConstant", 1, "OpConstant", 2,
                         "OpMultiply", "OpAdd", "OpPrint", "OpReturn">>
    /\ Printed(<<7, 1>>)

\* C9: where op1 and op2 have the same precedence, a op1 b op2 c compiles to
\* a b OP1 c OP2; with arithmetic operators the statement prints
\* (a op1 b) op2 c: 8 - 3 - 2 prints 3 and 8 / 4 / 2 prints 1
C9_LeftAssociative ==
    CompiledPrecedenceSource =>
    /\ \A t \in OperandTriples, op1 \in BinaryOperators, op2 \in BinaryOperators :
          (/\ AfterCompile(InfixSource(t[1], op1, t[2], op2, t[3]))
           /\ PrecedenceOf(op2) = PrecedenceOf(op1))
          => /\ CompiledTo(LeftFirst(op1, op2), t)
             /\ (pc = "idle" /\ {op1, op2} \subseteq ArithmeticOperators)
                   => Printed(Apply(op2, Apply(op1, NumberOf(t[1]), NumberOf(t[2])),
                                    NumberOf(t[3])))
    /\ AfterInterpret(InfixSource(<<"8">>, <<"-">>, <<"3">>, <<"-">>, <<"2">>))
          => Printed(<<3, 1>>)
    /\ AfterInterpret(InfixSource(<<"8">>, <<"/">>, <<"4">>, <<"/">>, <<"2">>))
          => Printed(<<1, 1>>)

\* print 8 - 3 - 2 ; was compiled to 8 3 OpSubtract 2 OpSubtract and has
\* printed 3
C9_Witness ==
    /\ AfterInterpret(InfixSource(<<"8">>, <<"-">>, <<"3">>, <<"-">>, <<"2">>))
    /\ vm.chunk.code = <<"OpConstant", 0, "OpConstant", 1, "OpSubtract",
                         "OpConstant", 2, "OpSubtract", "OpPrint", "OpReturn">>
    /\ Printed(<<3, 1>>)

\* the expressions before a '=' that is not an assignment to them: those that
\* are not an identifier, and a = 1, whose own '=' is an assignment
RejectedTargets == NotIdentifierTargets \cup {<<<<"a">>, <<"=">>, <<"1">>>>}

\* compile reported message
Reported(p, message) == \E i \in DOMAIN p.diagnostics : p.diagnostics[i].message = message

\* how many OpSetGlobal instructions the code has
SetGlobals(code) ==
    Cardinality({i \in DOMAIN Instructions(code, 1) : Instructions(code, 1)[i] = "OpSetGlobal"})

\* the step in which compile returns for prefix target = value ; with a
\* rejected target: interpret returns InterpretCompileError, the only
\* OpSetGlobal of the chunk is that of the assignment inside the target, and
\* the VM and its output are as they were.  After a prefix of reporting the
\* error is reported, after any other prefix it is not
RejectedAssignment(reporting) ==
    \A prefix \in CleanPrefixes \cup PanicPrefixes, target \in RejectedTargets,
       value \in AssignedValues :
        (/\ pc = "compile"
         /\ pc' # "compile"
         /\ parser.scanner.source = AssignmentSource(prefix, target, value))
        => /\ pc' = "idle"
           /\ returned' = "InterpretCompileError"
           /\ Reported(parser', "Invalid assignment target.") <=> prefix \in reporting
           /\ SetGlobals(parser'.compiling_chunk.code)
                 = (IF target \in NotIdentifierTargets THEN 0 ELSE 1)
           /\ vm' = vm
           /\ output' = output

\* C10, as the code has it: a '=' after an expression that is not a bare
\* identifier, parsed at assignment precedence, makes compile return
\* InterpretCompileError, emits no OpSetGlobal and leaves the VM as it was;
\* "Invalid assignment target." is reported unless an earlier error of the
\* same statement has put the parser in panic mode, which suppresses it
C10_InvalidTargetRejected == [][RejectedAssignment(CleanPrefixes)]_vars

\* C10, as stated: "Invalid assignment target." is reported for every such '='
C10_InvalidTargetAlwaysReported ==
    [][\A prefix \in CleanPrefixes \cup PanicPrefixes, target \in RejectedTargets,
          value \in AssignedValues :
           (/\ pc = "compile"
            /\ pc' # "compile"
            /\ parser.scanner.source = AssignmentSource(prefix, target, value))
           => /\ Reported(parser', "Invalid assignment target.")
              /\ returned' = "InterpretCompileError"
              /\ SetGlobals(parser'.compiling_chunk.code)
                    = (IF target \in NotIdentifierTargets THEN 0 ELSE 1)
              /\ vm' = vm
              /\ output' = output]_vars

\* after print 1 ; has run, 1 + 2 = 3 ; was rejected with the report and the
\* VM still holds the chunk of print 1 ;
C10_Witness ==
    /\ AfterInterpret(AssignmentSource(<< >>, <<<<"1">>, <<"+">>, <<"2">>>>, <<"3">>))
    /\ returned = "InterpretCompileError"
    /\ Reported(parser, "Invalid assignment target.")
    /\ SetGlobals(parser.compiling_chunk.code) = 0
    /\ vm.chunk.code = <<"OpConstant", 0, "OpPrint", "OpReturn">>
    /\ output = <<[stream |-> "stdout", value |-> ValNumber(<<1, 1>>)]>>

(***************************************************************************)
(* Properties of the virtual machine                                       *)
(***************************************************************************)
\* the keys of the globals map whose string is name, and the value stored
\* under name
GlobalKeys(name) == {h \in DOMAIN vm.globals : as_str(table, h) = {name}}
Defined(name) == GlobalKeys(name) # {}
Stored(name) == vm.globals[CHOOSE h \in GlobalKeys(name) : TRUE]

\* C11: once the global a is defined, a = 2 ; returns Ok and leaves 2 stored
\* under a, print a ; prints what is stored under a, and
\* var a = 1 ; a = 2 ; print a ; prints 2
C11_GlobalLifecycle ==
    /\ (AfterInterpret(AssignA2) /\ Defined(<<"a">>))
          => (returned = "Ok" /\ Stored(<<"a">>) = ValNumber(<<2, 1>>))
    /\ (AfterInterpret(PrintA) /\ Defined(<<"a">>))
          => (returned = "Ok" /\ output # << >>
              /\ output[Len(output)] = [stream |-> "stdout", value |-> Stored(<<"a">>)])
    /\ AfterInterpret(VarAssignPrintA) => Printed(<<2, 1>>)

\* run is about to execute the instruction op
Executing(op) ==
    pc = "run" /\ vm.ip < Len(vm.chunk.code) /\ vm.chunk.code[vm.ip + 1] = op

\* the constant that the operand of the instruction about to execute names
OperandConstant == vm.chunk.constants[vm.chunk.code[vm.ip + 2] + 1]

\* run is about to read a global that the globals map does not hold
ReadsUndefined ==
    /\ Executing("OpGetGlobal")
    /\ OperandConstant.tag = "ValObjString"
    /\ OperandConstant.value \notin DOMAIN vm.globals

\* the step ended the call with a RuntimeError reported as message
RuntimeErrorReported(message) ==
    /\ pc' = "idle"
    /\ returned' = "InterpretRuntimeError"
    /\ Len(output') = Len(output) + 1
    /\ output'[Len(output')].stream = "stderr"
    /\ output'[Len(output')].message = message

\* C12: a GetGlobal of a name that the globals map does not hold returns
\* RuntimeError with the message Undefined variable, pushes nothing and leaves
\* the globals map as it was; print b ; fails this way
C12_UndefinedGlobalRead ==
    [][ReadsUndefined =>
          /\ RuntimeErrorReported(<<"Undefined variable", as_str(table, OperandConstant.value)>>)
          /\ Len(vm'.stack) <= Len(vm.stack)
          /\ vm'.globals = vm.globals]_vars

\* C13: a SetGlobal of a name that the globals map does not hold ends the call
\* with RuntimeError and creates no global; a SetGlobal of a name it holds
\* stores the top of the stack under the name, leaves the stack as it was and
\* goes on
C13_SetGlobal ==
    [][(Executing("OpSetGlobal") /\ OperandConstant.tag = "ValObjString") =>
          IF OperandConstant.value \notin DOMAIN vm.globals
          THEN /\ pc' = "idle"
               /\ returned' = "InterpretRuntimeError"
               /\ vm'.globals = vm.globals
          ELSE /\ pc' = "run"
               /\ vm'.globals = [vm.globals EXCEPT ![OperandConstant.value] = VM_peek(vm.stack, 0)]
               /\ vm'.stack = vm.stack]_vars

\* C14: when run has returned a RuntimeError the operand stack is empty
C14_RuntimeErrorEmptiesStack ==
    (pc = "idle" /\ returned = "InterpretRuntimeError") => vm.stack = << >>

\* C15: once an instruction has returned a RuntimeError the loop of run is
\* left and interpret has returned it: nothing is executed, printed or
\* defined until the next interpret call, and
\* print - nil ; var a = 1 ; print a ; ends at the negation with nothing
\* printed and a not defined
C15_RuntimeErrorIsFatal ==
    /\ [](returned = "InterpretRuntimeError" => pc = "idle")
    /\ [][returned = "InterpretRuntimeError" =>
            (vm' = vm /\ output' = output /\ returned' = "Pending")]_vars
    /\ [](AfterInterpret(NegateNilVarPrintA) =>
            /\ returned = "InterpretRuntimeError"
            /\ output[Len(output)].stream = "stderr"
            /\ ~Defined(<<"a">>))

\* run returned a RuntimeError with a print and a definition still ahead
C15_Witness ==
    /\ AfterInterpret(NegateNilVarPrintA)
    /\ returned = "InterpretRuntimeError"
    /\ vm.ip < 6
    /\ vm.chunk.code[6] = "OpDefineGlobal"
    /\ vm.chunk.code[10] = "OpPrint"

\* the values that the instruction op pops or peeks
Operands(op) ==
    CASE op \in {"OpPop", "OpPrint", "OpNegate", "OpNot", "OpDefineGlobal"} -> 1
      [] op \in {"OpAdd", "OpSubtract", "OpMultiply", "OpDivide", "OpEqual",
                 "OpGreater", "OpLess"} -> 2
      [] OTHER -> 0

\* run is about to execute an instruction that needs more values than the
\* stack holds
Underflows ==
    /\ pc = "run"
    /\ vm.ip < Len(vm.chunk.code)
    /\ Len(vm.stack) < Operands(vm.chunk.code[vm.ip + 1])

\* C16: an instruction that pops or peeks more values than the operand stack
\* holds makes run return a RuntimeError, and the process is not aborted
C16_UnderflowIsRuntimeError ==
    [][Underflows => (pc' = "idle" /\ returned' = "InterpretRuntimeError")]_vars

\* C17: a byte that is no opcode makes run return RuntimeError at once: the
\* process is not aborted, no later byte of the chunk is read and nothing is
\* written
C17_UnknownOpcode ==
    [][Executing(NoOpcode) =>
          /\ pc' = "idle"
          /\ returned' = "InterpretRuntimeError"
          /\ vm'.ip = vm.ip + 1
          /\ output' = output]_vars

\* run returned at a byte that is no opcode, before the last byte of the chunk
C17_Witness ==
    /\ pc = "idle"
    /\ returned = "InterpretRuntimeError"
    /\ parser = Unused
    /\ vm.ip < Len(vm.chunk.code)
    /\ vm.chunk.code[vm.ip] = NoOpcode
    /\ vm.chunk.code[vm.ip + 1] = "OpPrint"

\* C18: no step of compile prints, executes an instruction or changes the
\* globals map or the operand stack, and when compile ends with an error
\* interpret returns CompileError without entering run
C18_CompileErrorRunsNothing ==
    [][(pc = "idle" \/ pc = "compile") =>
          /\ output' = output
          /\ vm'.globals = vm.globals
          /\ vm'.stack = vm.stack
          /\ ((pc = "compile" /\ check(parser, "TokenEof") /\ parser'.had_error) =>
                (pc' = "idle" /\ returned' = "InterpretCompileError" /\ vm'.ip = vm.ip))
          /\ (pc' = "run" => ~parser'.had_error)]_vars

\* interpret returned CompileError on a VM that holds a global and has printed
C18_Witness ==
    /\ pc = "idle"
    /\ returned = "InterpretCompileError"
    /\ Defined(<<"a">>)
    /\ output # << >>

\* run is about to execute the instruction op on a global that the globals
\* map holds
ExecutingOnDefined(op) ==
    /\ Executing(op)
    /\ OperandConstant.tag = "ValObjString"
    /\ OperandConstant.value \in DOMAIN vm.globals

\* C19: from one interpret call to the next the globals map is kept and the
\* chunk and ip are replaced by the compiled chunk and 0; in every call a
\* GetGlobal of a global defined by an earlier call pushes its value and a
\* SetGlobal of it stores the top of the stack, and the run goes on
C19_GlobalsPersistAcrossCalls ==
    [][/\ (pc = "idle" \/ pc = "compile") => vm'.globals = vm.globals
       /\ (pc = "compile" /\ pc' = "run") =>
             (vm'.chunk = parser'.compiling_chunk /\ vm'.ip = 0)
       /\ ExecutingOnDefined("OpGetGlobal") =>
             /\ pc' = "run"
             /\ vm'.stack = Append(vm.stack, vm.globals[OperandConstant.value])
             /\ vm'.globals = vm.globals
       /\ ExecutingOnDefined("OpSetGlobal") =>
             /\ pc' = "run"
             /\ vm'.globals = [vm.globals EXCEPT ![OperandConstant.value] = VM_peek(vm.stack, 0)]]_vars

\* run is about to add the string b, on top of the stack, to the string a
\* below it
AddsStrings ==
    /\ Executing("OpAdd")
    /\ Len(vm.stack) >= 2
    /\ VM_peek(vm.stack, 0).tag = "ValObjString"
    /\ VM_peek(vm.stack, 1).tag = "ValObjString"

\* the contents a followed by b of the two strings on top of the stack
Concatenation ==
    {x \o y : x \in as_str(table, VM_peek(vm.stack, 1).value),
              y \in as_str(table, VM_peek(vm.stack, 0).value)}

\* C20: Add on two strings pops both and pushes a string whose content is the
\* one below followed by the one on top; it is the handle that any allocation
\* of that content from the table returns, the table gains at most one entry
\* and none when it holds the content already, and the run goes on;
\* print "ab" + "cd" ; prints abcd
C20_Concatenation ==
    /\ [][AddsStrings =>
            /\ pc' = "run"
            /\ Len(vm'.stack) = Len(vm.stack) - 1
            /\ Popped(vm'.stack, 1) = Popped(vm.stack, 2)
            /\ VM_peek(vm'.stack, 0).tag = "ValObjString"
            /\ as_str(table', VM_peek(vm'.stack, 0).value) = Concatenation
            /\ \A x \in Concatenation :
                  /\ allocate_string_from_str(table', x).string = VM_peek(vm'.stack, 0).value
                  /\ Contains(table, x) => DOMAIN table' = DOMAIN table
            /\ Cardinality(DOMAIN table') <= Cardinality(DOMAIN table) + 1]_vars
    /\ [](AfterInterpret(PrintABCD) =>
            /\ returned = "Ok"
            /\ output # << >>
            /\ output[Len(output)].stream = "stdout"
            /\ Display(table, output[Len(output)].value) = {<<"a", "b", "c", "d">>})

(***************************************************************************)
(* Properties of the compiler's error handling                             *)
(***************************************************************************)
\* compile has a Parser for the source given to interpret
Compiling == returned # "None"

\* C21: a chunk with more constants than a one-byte index can name has an
\* error and "Too many constants in one chunk." is reported only for such a
\* chunk; 1; repeated U8Max + 2 times reports it, gets operand 0 for the last
\* constant, is compiled to its end without a panic and returns CompileError;
\* 1; repeated U8Max + 1 times compiles and runs
C21_TooManyConstants ==
    Compiling =>
    /\ Len(parser.compiling_chunk.constants) > U8Max + 1 => parser.had_error
    /\ Reported(parser, "Too many constants in one chunk.")
          => Len(parser.compiling_chunk.constants) > U8Max + 1
    /\ parser.scanner.source \in {FullPool, OverfullPool} => pc # "aborted"
    /\ AfterInterpret(OverfullPool) =>
          /\ returned = "InterpretCompileError"
          /\ Reported(parser, "Too many constants in one chunk.")
          /\ Len(parser.compiling_chunk.code) = 3 * (U8Max + 2) + 1
          /\ SubSeq(parser.compiling_chunk.code, 3 * (U8Max + 1) + 1, 3 * (U8Max + 2) + 1)
                = <<"OpConstant", 0, "OpPop", "OpReturn">>
    /\ AfterInterpret(FullPool) => (returned = "Ok" /\ ~parser.had_error)

\* compile returned CompileError for a source with U8Max + 2 constants
C21_Witness ==
    /\ AfterInterpret(OverfullPool)
    /\ Len(parser.compiling_chunk.constants) = U8Max + 2
    /\ returned = "InterpretCompileError"

\* C22: had_error is set exactly when an error was reported and no step of a
\* compilation clears it, nor does synchronize; when compile returns,
\* interpret returns CompileError exactly when had_error is set, and
\* otherwise the chunk the parser wrote becomes the VM's
C22_CompileErrorIffHadError ==
    /\ [](Compiling =>
            /\ parser.had_error <=> parser.diagnostics # << >>
            /\ parser.had_error => synchronize(parser).had_error)
    /\ [][pc = "compile" =>
            /\ parser.had_error => parser'.had_error
            /\ pc' \in {"idle", "run"} =>
                  /\ parser'.had_error <=> (pc' = "idle" /\ returned' = "InterpretCompileError")
                  /\ ~parser'.had_error =>
                        (pc' = "run" /\ vm'.chunk = parser'.compiling_chunk)]_vars

\* compile returned CompileError for a source whose first declaration has an
\* error and whose second has none
C22_Witness ==
    /\ AfterInterpret(SkippedCharacterThenPrint)
    /\ returned = "InterpretCompileError"
    /\ Len(parser.diagnostics) = 2
    /\ parser.compiling_chunk.code[Len(parser.compiling_chunk.code) - 1] = "OpPrint"

RECURSIVE YieldsError(_)
\* the scanner yields an Error token before it yields Eof
YieldsError(s) ==
    LET yields(r) ==
            \/ r.token.token_type = "TokenError"
            \/ r.token.token_type \notin {"TokenEof", "Panic"} /\ YieldsError(r.scanner)
    IN  yields(scan_token(s))

\* the sources for which the scanner yields an Error token
LexicalErrorSources ==
    {source \in PrecedenceSources \cup AssignmentSources \cup Scripts \cup ErrorSources
                    \cup SessionLines :
        YieldsError(Scanner_new(source))}

\* C23: the parser never holds an Error token of the scanner as current or
\* previous (previous is the placeholder of Parser::new at first); for a
\* source whose tokens include an Error token the process is not aborted,
\* run is not entered, and when compile returns interpret returns
\* CompileError with the VM and the output as they were
C23_LexicalErrorsAreCompileErrors ==
    /\ [](Compiling =>
            /\ parser.current.token_type # "TokenError"
            /\ parser.previous.token_type = "TokenError" => parser.previous = PlaceholderToken
            /\ parser.scanner.source \in LexicalErrorSources => pc \notin {"run", "aborted"})
    /\ [][(pc = "compile" /\ pc' # "compile"
             /\ parser.scanner.source \in LexicalErrorSources) =>
            /\ pc' = "idle"
            /\ returned' = "InterpretCompileError"
            /\ vm' = vm
            /\ output' = output]_vars

\* compile returned CompileError for a string without an end, and for a
\* character the scanner rejects that was met in panic mode
C23_Witness ==
    /\ pc = "idle"
    /\ returned = "InterpretCompileError"
    /\ \/ /\ parser.scanner.source = UnterminatedString
          /\ parser.diagnostics[1].at = << >>
       \/ /\ parser.scanner.source = SkippedCharacterThenError
          /\ Len(parser.diagnostics) = 2

\* the diagnostics that the step adds to those of the parser
NewDiagnostics == SubSeq(parser'.diagnostics, Len(parser.diagnostics) + 1, Len(parser'.diagnostics))

\* the diagnostic reports an Error token of the scanner: the only errors that
\* synchronize, which calls nothing but advance, can report
Lexical(diagnostic) == diagnostic.at = << >>

SynchronizeCalled ==
    /\ pc = "compile"
    /\ pc' = "compile"
    /\ parser.panic_mode \/ NewDiagnostics # << >>

\* the parser stands where synchronize stops: after a ';', before a token
\* that starts a statement, or at Eof
Synchronized(p) ==
    \/ p.previous.token_type = "TokenSemicolon"
    \/ p.current.token_type \in SynchronizeAt
    \/ p.current.token_type = "TokenEof"

\* C25: when the synchronize that a declaration called returns, panic_mode
\* is false and the parser stands after a ';', before class, fun, var, for,
\* if, while, print or return, or at Eof
C25_SynchronizePostcondition ==
    [][SynchronizeCalled => (~parser'.panic_mode /\ Synchronized(parser'))]_vars

(***************************************************************************)
(* Properties of the operators                                             *)
(***************************************************************************)
\* the relation op between the numbers x and y: every relation but != is
\* false when x or y is NaN
Relation(op, x, y) ==
    CASE op = <<"=", "=">> -> f64_eq(x, y)
      [] op = <<"!", "=">> -> ~f64_eq(x, y)
      [] op = <<"<">> -> f64_lt(x, y)
      [] op = <<"<", "=">> -> f64_lt(x, y) \/ f64_eq(x, y)
      [] op = <<">">> -> f64_lt(y, x)
      [] op = <<">", "=">> -> f64_lt(y, x) \/ f64_eq(x, y)

\* print a op b ; was compiled to code that ends with the instructions of
\* op, OpPrint and OpReturn and, once run, has printed the relation between
\* the two numbers
ComparesAs(a, op, b) ==
    AfterCompile(ComparisonSource(a, op, b)) =>
        /\ ~parser.had_error
        /\ SubSeq(vm.chunk.code, Len(vm.chunk.code) - 1 - Len(OP(op)), Len(vm.chunk.code))
              = OP(op) \o <<"OpPrint", "OpReturn">>
        /\ pc = "idle" =>
              /\ returned = "Ok"
              /\ output[Len(output)]
                    = [stream |-> "stdout", value |-> ValBool(Relation(op, a.number, b.number))]

\* the source given to compile is a comparison
CompiledComparison == returned # "None" /\ parser.scanner.source \in ComparisonSources

\* C26, as the code has it: != compiles to OpEqual OpNot, >= to OpLess OpNot
\* and <= to OpGreater OpNot, and for operands that are numbers other than
\* NaN the statement prints the relation between them: 1 >= 1, 1 <= 1 and
\* 1 != 2 print true
C26_ComparisonSynthesis ==
    CompiledComparison =>
        \A a \in ComparedOperands, op \in ComparisonOperators, b \in ComparedOperands :
            (a.number # NaN /\ b.number # NaN) => ComparesAs(a, op, b)

\* C26, as stated: the same for all operands that are numbers
C26_ComparisonSynthesisOfAnyNumbers ==
    CompiledComparison =>
        \A a \in ComparedOperands, op \in ComparisonOperators, b \in ComparedOperands :
            ComparesAs(a, op, b)

\* print 1 >= 1 ; was compiled to 1 1 OpLess OpNot and has printed true
C26_Witness ==
    /\ AfterInterpret(Join(<<PrintKeyword, <<"1">>, <<">", "=">>, <<"1">>, <<";">>>>))
    /\ vm.chunk.code = <<"OpConstant", 0, "OpConstant", 1, "OpLess", "OpNot",
                         "OpPrint", "OpReturn">>
    /\ returned = "Ok"
    /\ output[Len(output)] = [stream |-> "stdout", value |-> ValBool(TRUE)]

\* the two values on top of the stack are of the same variant and hold the
\* same boolean, the same number, or strings of the same content
EqualOperands ==
    LET b == VM_peek(vm.stack, 0)
        a == VM_peek(vm.stack, 1)
    IN  /\ a.tag = b.tag
        /\ CASE a.tag = "ValObjString" -> as_str(table, a.value) = as_str(table, b.value)
              [] a.tag = "ValNumber" -> f64_eq(a.value, b.value)
              [] OTHER -> a.value = b.value

\* C27: Equal on any two values pops both and pushes the Bool that tells
\* whether they are of the same variant and equal (strings: of equal content);
\* the run goes on, without a runtime error and without an abort
C27_EqualNeverFails ==
    [][(Executing("OpEqual") /\ Len(vm.stack) >= 2) =>
            /\ pc' = "run"
            /\ vm'.stack = Append(Popped(vm.stack, 2), ValBool(EqualOperands))]_vars

\* the same in a build without overflow checks
C27_EqualInUncheckedBuild ==
    [][(Executing("OpEqual") /\ Len(vm.stack) >= 2 /\ ~build_checks) =>
            /\ pc' = "run"
            /\ vm'.stack = Append(Popped(vm.stack, 2), ValBool(EqualOperands))]_vars

\* run is about to execute the binary instruction op on two values
ExecutingBinary(op) == Executing(op) /\ Len(vm.stack) >= 2

\* the two values on top of the stack are both of the variant tag
BothAre(tag) == VM_peek(vm.stack, 0).tag = tag /\ VM_peek(vm.stack, 1).tag = tag

\* the step ends the run with a RuntimeError and pushes nothing
FailsWithoutResult ==
    /\ pc' = "idle"
    /\ returned' = "InterpretRuntimeError"
    /\ Len(vm'.stack) <= Len(vm.stack)
    /\ vm'.stack = SubSeq(vm.stack, 1, Len(vm'.stack))

\* the step replaces the two values on top of the stack by one and the run
\* goes on
Succeeds ==
    /\ pc' = "run"
    /\ Len(vm'.stack) = Len(vm.stack) - 1
    /\ Popped(vm'.stack, 1) = Popped(vm.stack, 2)

\* C28: Add on two Numbers or on two Strings succeeds; on any other pair of
\* values run returns RuntimeError and no result is pushed
C28_AddOperandTypes ==
    [][ExecutingBinary("OpAdd") =>
            IF BothAre("ValNumber") \/ BothAre("ValObjString")
            THEN Succeeds
            ELSE FailsWithoutResult]_vars

\* the same in a build without overflow checks
C28_AddInUncheckedBuild ==
    [][(ExecutingBinary("OpAdd") /\ ~build_checks) =>
            IF BothAre("ValNumber") \/ BothAre("ValObjString")
            THEN Succeeds
            ELSE FailsWithoutResult]_vars

\* Add on a pair that is neither two Numbers nor two Strings, none of them
\* a String
AddsWithoutString ==
    /\ ExecutingBinary("OpAdd")
    /\ ~BothAre("ValNumber")
    /\ VM_peek(vm.stack, 0).tag # "ValObjString"
    /\ VM_peek(vm.stack, 1).tag # "ValObjString"

\* in either build, Add on Numbers succeeds and Add on a pair with a Bool or
\* a Nil and no String fails
C28_AddWithoutStrings ==
    [][(ExecutingBinary("OpAdd") /\ (BothAre("ValNumber") \/ AddsWithoutString)) =>
            IF BothAre("ValNumber") THEN Succeeds ELSE FailsWithoutResult]_vars

\* the instructions that run executes with binary_op!, the operator of the
\* source each is compiled from, and the variant of the value each pushes
NumericInstructions ==
    {[opcode |-> "OpGreater", operator |-> <<">">>, value_type |-> "ValBool"],
     [opcode |-> "OpLess", operator |-> <<"<">>, value_type |-> "ValBool"],
     [opcode |-> "OpSubtract", operator |-> <<"-">>, value_type |-> "ValNumber"],
     [opcode |-> "OpMultiply", operator |-> <<"*">>, value_type |-> "ValNumber"],
     [opcode |-> "OpDivide", operator |-> <<"/">>, value_type |-> "ValNumber"]}

\* the value of a operator b, a the value below the top of the stack and b
\* the top
InSourceOrder(i) ==
    LET b == VM_peek(vm.stack, 0).value
        a == VM_peek(vm.stack, 1).value
    IN  IF i.value_type = "ValBool"
        THEN ValBool(Relation(i.operator, a, b))
        ELSE ValNumber(Apply(i.operator, a, b))

\* C29: Greater, Less, Subtract, Multiply and Divide on two Numbers pop both
\* and push a op b, a the value below the top and b the top; on any other
\* pair of values run returns RuntimeError with "Operands must be numbers."
C29_NumericOperators ==
    [][\A i \in NumericInstructions :
            ExecutingBinary(i.opcode) =>
                IF BothAre("ValNumber")
                THEN /\ pc' = "run"
                     /\ vm'.stack = Append(Popped(vm.stack, 2), InSourceOrder(i))
                ELSE RuntimeErrorReported("Operands must be numbers.")]_vars

\* the same in a build without overflow checks
C29_NumericOperatorsInUncheckedBuild ==
    [][\A i \in NumericInstructions :
            (ExecutingBinary(i.opcode) /\ ~build_checks) =>
                IF BothAre("ValNumber")
                THEN /\ pc' = "run"
                     /\ vm'.stack = Append(Popped(vm.stack, 2), InSourceOrder(i))
                ELSE RuntimeErrorReported("Operands must be numbers.")]_vars

\* neither of the two values on top of the stack is a String
NoStringOperand ==
    /\ VM_peek(vm.stack, 0).tag # "ValObjString"
    /\ VM_peek(vm.stack, 1).tag # "ValObjString"

\* in either build, the same on pairs of values without a String
C29_NumericOperatorsWithoutStrings ==
    [][\A i \in NumericInstructions :
            (ExecutingBinary(i.opcode) /\ NoStringOperand) =>
                IF BothAre("ValNumber")
                THEN /\ pc' = "run"
                     /\ vm'.stack = Append(Popped(vm.stack, 2), InSourceOrder(i))
                ELSE RuntimeErrorReported("Operands must be numbers.")]_vars

\* the value on top of the stack is false or nil
TopIsFalseOrNil ==
    VM_peek(vm.stack, 0) \in {ValBool(FALSE), ValNil}

\* C30: Not on a non-empty stack pops one value and pushes Bool(true) when
\* the value is false or nil and Bool(false) for every other value; the run
\* goes on, without a runtime error and without an abort
C30_NotNeverFails ==
    [][(Executing("OpNot") /\ Len(vm.stack) >= 1) =>
            /\ pc' = "run"
            /\ vm'.stack = Append(Popped(vm.stack, 1), ValBool(TopIsFalseOrNil))]_vars

\* the same in a build without overflow checks
C30_NotInUncheckedBuild ==
    [][(Executing("OpNot") /\ Len(vm.stack) >= 1 /\ ~build_checks) =>
            /\ pc' = "run"
            /\ vm'.stack = Append(Popped(vm.stack, 1), ValBool(TopIsFalseOrNil))]_vars

\* in either build, the same on a value that is no String
C30_NotOfNoString ==
    [][(Executing("OpNot") /\ Len(vm.stack) >= 1
            /\ VM_peek(vm.stack, 0).tag # "ValObjString") =>
            /\ pc' = "run"
            /\ vm'.stack = Append(Popped(vm.stack, 1), ValBool(TopIsFalseOrNil))]_vars

(***************************************************************************)
(* Properties of declarations, of the scanner's lines and numbers, and of  *)
(* compiled chunks                                                         *)
(***************************************************************************)
\* run is about to execute OpDefineGlobal with a value on the stack
Defines ==
    /\ Executing("OpDefineGlobal")
    /\ OperandConstant.tag = "ValObjString"
    /\ Len(vm.stack) >= 1

\* C31: DefineGlobal stores the value on top of the stack under the name and
\* pops it, whether or not the name is bound already, and the run goes on:
\* no runtime error and no abort, in the first call and in later ones
C31_DefineGlobalBindsUnconditionally ==
    [][Defines =>
            /\ pc' = "run"
            /\ vm'.globals = (OperandConstant.value :> VM_peek(vm.stack, 0)) @@ vm.globals
            /\ vm'.stack = Popped(vm.stack, 1)]_vars

\* the same in a build without overflow checks
C31_DefineGlobalInUncheckedBuild ==
    [][(Defines /\ ~build_checks) =>
            /\ pc' = "run"
            /\ vm'.globals = (OperandConstant.value :> VM_peek(vm.stack, 0)) @@ vm.globals
            /\ vm'.stack = Popped(vm.stack, 1)]_vars

\* the number of newline characters among the characters consumed so far
NewlinesConsumed ==
    Cardinality({i \in 1..(scanner.current - 1) : scanner.source[i] = "\n"})

\* C32: after every scan_token call the scanner's line is 1 plus the number
\* of newlines consumed, whether in whitespace, at the end of a line comment
\* or inside a string literal, and the token returned carries that line
C32_LineTracking ==
    /\ scanner.line = 1 + NewlinesConsumed
    /\ token # PlaceholderToken => token.line = scanner.line

\* a string literal that holds a newline has been scanned
C32_Witness ==
    /\ token.token_type = "TokenString"
    /\ \E i \in DOMAIN token.string : token.string[i] = "\n"
    /\ token.line = 2

\* the character of the source at position i, None past its end
CharAt(i) == IF i \in DOMAIN scanner.source THEN scanner.source[i] ELSE None

\* s is a run of digits, or two runs of digits with a '.' between them
NumberShape(s) ==
    /\ s # << >>
    /\ \A i \in DOMAIN s : is_lox_digit(s[i]) \/ s[i] = "."
    /\ Cardinality({i \in DOMAIN s : s[i] = "."}) <= 1
    /\ s[1] # "."
    /\ s[Len(s)] # "."

\* C33: a Number token is the text from the token's start to the scanner's
\* position; it is a digit run, or a digit run, a '.' and a digit run; it is
\* not followed by a digit, nor, when it has no '.', by a '.' and a digit;
\* and a token that starts with a digit is a Number.  '1.' scans as Number
\* '1' and Dot, '1.1' as the one Number '1.1'
C33_NumberScanning ==
    /\ token.token_type = "TokenNumber" =>
          /\ token.string = SubSeq(scanner.source, scanner.start, scanner.current - 1)
          /\ NumberShape(token.string)
          /\ ~is_lox_digit(CharAt(scanner.current))
          /\ ("." \notin {token.string[i] : i \in DOMAIN token.string}) =>
                ~(CharAt(scanner.current) = "." /\ is_lox_digit(CharAt(scanner.current + 1)))
    /\ (token # PlaceholderToken /\ is_lox_digit(CharAt(scanner.start))) =>
          token.token_type = "TokenNumber"
    /\ (scanner.source = <<"1", ".">> /\ token # PlaceholderToken) =>
          \/ token.token_type = "TokenNumber" /\ token.string = <<"1">>
          \/ token.token_type = "TokenDot" /\ scanner.start = 2
          \/ token.token_type = "TokenEof"
    /\ (scanner.source = <<"1", ".", "1">> /\ token # PlaceholderToken) =>
          \/ token.token_type = "TokenNumber" /\ token.string = <<"1", ".", "1">>
          \/ token.token_type = "TokenEof"

\* the Number '1' of the source '1.' has been scanned: the '.' is left
C33_Witness ==
    /\ scanner.source = <<"1", ".">>
    /\ token.token_type = "TokenNumber"
    /\ token.string = <<"1">>
    /\ scanner.current = 2

\* the instructions that end a declaration or a statement
StatementEnds == {"OpDefineGlobal", "OpPop", "OpPrint"}

\* run never meets an instruction that needs more values than the stack holds
NeverUnderflows == ~Underflows

\* C34: running a compiled chunk never pops or peeks more values than the
\* stack holds, the stack is empty after the instruction that ends a
\* declaration or statement and when Return is reached, and it is empty
\* whenever interpret is called or has returned
C34_StackBalance ==
    /\ [](NeverUnderflows)
    /\ [](Executing("OpReturn") => vm.stack = << >>)
    /\ [](pc = "idle" => vm.stack = << >>)
    /\ [][\A op \in StatementEnds :
              (Executing(op) /\ pc' = "run") => vm'.stack = << >>]_vars

\* what compile still has to read: the characters the scanner has not
\* consumed and the token in current, unless that is Eof
Unread(p) ==
    (Len(p.scanner.source) + 1 - p.scanner.current)
        + (IF p.current.token_type = "TokenEof" THEN 0 ELSE 1)

\* C35: compile terminates: once begun it returns; every scan_token call
\* consumes a character or returns Eof; each declaration, with the error
\* tokens it skips and its synchronize, consumes at least one token
C35_CompileTerminates ==
    /\ (pc = "compile") ~> (pc \in {"run", "idle"})
    /\ [](pc = "compile" =>
            \E r \in {scan_token(parser.scanner)} :
                \/ r.token.token_type = "TokenEof"
                \/ r.scanner.current > parser.scanner.current)
    /\ []((pc = "compile" /\ ~check(parser, "TokenEof")) =>
            \E p \in {declaration(parser)} : Unread(p) < Unread(parser))

\* compile has returned for a source with a lexical and a syntax error
\* that it resynchronized on
C35_Witness ==
    /\ pc = "idle"
    /\ returned = "InterpretCompileError"
    /\ parser.scanner.source = SkippedCharacterThenError

\* the byte is the opcode op; an operand, which is a number, is none
IsOpcode(byte, op) == ToString(byte) = ToString(op)

\* the places of the code that hold the byte of OpReturn
Returns(code) == {i \in DOMAIN code : IsOpcode(code[i], "OpReturn")}

\* the step ends run: at OpReturn with Ok, or with a RuntimeError
EndsRun ==
    /\ pc' = "idle"
    /\ \/ Executing("OpReturn") /\ returned' = "Ok"
       \/ returned' = "InterpretRuntimeError"

\* C36: run terminates on a compiled chunk: it returns; the chunk holds
\* OpReturn once, as its last byte; ip only increases; the opcode and its
\* operand are read below the length of the code; and run ends at the
\* OpReturn or with a RuntimeError before it
C36_RunTerminates ==
    /\ (pc = "run") ~> (pc = "idle")
    /\ [](pc = "run" =>
            /\ Returns(vm.chunk.code) = {Len(vm.chunk.code)}
            /\ vm.ip < Len(vm.chunk.code)
            /\ vm.chunk.code[vm.ip + 1] \in ConstantInstructions =>
                  vm.ip + 1 < Len(vm.chunk.code))
    /\ [][pc = "run" => (IF pc' = "run" THEN vm'.ip > vm.ip ELSE EndsRun)]_vars

\* the same in a build without overflow checks
C36_RunTerminatesInUncheckedBuild ==
    /\ (pc = "run") ~> (pc \in {"idle", "aborted"})
    /\ [](pc = "run" =>
            /\ Returns(vm.chunk.code) = {Len(vm.chunk.code)}
            /\ vm.ip < Len(vm.chunk.code)
            /\ vm.chunk.code[vm.ip + 1] \in ConstantInstructions =>
                  vm.ip + 1 < Len(vm.chunk.code))
    /\ [][(pc = "run" /\ ~build_checks) =>
            (IF pc' = "run" THEN vm'.ip > vm.ip ELSE EndsRun)]_vars

\* the places of the code that hold an opcode that an operand follows
OperandOpcodes(code) ==
    {i \in DOMAIN code : \E op \in ConstantInstructions : IsOpcode(code[i], op)}

\* C37: in the chunk that a successful compile returned, the byte after each
\* Constant, GetGlobal, DefineGlobal and SetGlobal is an index into the
\* chunk's constants, and for the three global instructions the constant at
\* that index is a String
C37_OperandsIndexConstants ==
    pc = "run" =>
        \A i \in OperandOpcodes(vm.chunk.code) :
            /\ i + 1 <= Len(vm.chunk.code)
            /\ vm.chunk.code[i + 1] \in 0..(Len(vm.chunk.constants) - 1)
            /\ vm.chunk.code[i] # "OpConstant" =>
                  vm.chunk.constants[vm.chunk.code[i + 1] + 1].tag = "ValObjString"

\* run has the chunk of a source that defines, sets and gets a global
C37_Witness ==
    /\ pc = "run"
    /\ parser.scanner.source = VarAssignPrintA
    /\ vm.ip = 0
    /\ Cardinality({vm.chunk.code[i] : i \in OperandOpcodes(vm.chunk.code)}) = 4

\* C38: a parser in panic mode has had_error set, and a compile that
\* succeeded, so that its chunk is run, reported nothing and ended with
\* neither flag set
C38_PanicModeImpliesHadError ==
    Compiling =>
        /\ parser.panic_mode => parser.had_error
        /\ pc = "run" =>
              /\ ~parser.had_error
              /\ ~parser.panic_mode
              /\ parser.diagnostics = << >>

\* a declaration is about to be parsed in panic mode: the errors in it are
\* suppressed
C38_Witness ==
    /\ pc = "compile"
    /\ parser.panic_mode
    /\ parser.had_error
    /\ parser.scanner.source = SkippedCharacterThenError
    /\ ~check(parser, "TokenEof")

====
